---- MODULE Spec2Model ----
(***************************************************************************)
(* Quantitative CTL model checking over multi-valued gene regulatory       *)
(* networks (repository CTL_sat_degree).                                   *)
(*                                                                         *)
(* The model follows src/src/ctl_formulae.py (the evaluate methods),       *)
(* src/src/weighted_distance.py (border, weighted Hamming distance,        *)
(* extreme depth), src/src/priority_queue.py and                           *)
(* src/src/kripke_structure.py (label table and driver).                   *)
(*                                                                         *)
(* Numbers.  The program works with floats built from the weights 1/m_i.   *)
(* The model keeps every distance as an exact integer multiple of          *)
(* 1/WeightScale(maxes) and every label as an exact integer multiple of     *)
(* 1/LabelScale, so a label v of the program is the integer v*LabelScale.  *)
(*                                                                         *)
(* Names across modules.  ctl_formulae.py imports weighted_distance,       *)
(* find_extreme_state and get_border_states; the functions with these      *)
(* signatures live in weighted_distance.py (find_extreme_state under its   *)
(* later name find_extreme_depth), as src/src/test/                        *)
(* satisfaction_degree_test.py uses them.  AtomicFormula.evaluate passes   *)
(* one value `border` as a set of states to all three calls; it is the     *)
(* DoV-side border (first component of get_border_states), the set that    *)
(* the get_border_states of test/model_checking_test.py:57-68 returns for  *)
(* the same evaluate body.                                                 *)
(***************************************************************************)
EXTENDS Integers, Sequences, FiniteSets, TLC

\* ------------------------------------------------------------------------
\* Bounds of the model
\* ------------------------------------------------------------------------

\* largest maximum activity of the single-variable networks explored
MaxActivity == 3

\* largest number of successors of a state in the graphs of SpecOp
MaxSuccessors == 2

\* number of distinct items pushed to a queue in SpecQueue
MaxItems == 3

\* the keys pushed in SpecQueue are -MaxKey..MaxKey
MaxKey == 1

\* longest list of regulators of a regulation in SpecStg
MaxRegulators == 1

\* longest list of contexts of a regulation in SpecStg
MaxContexts == 2

\* ------------------------------------------------------------------------
\* Program constants
\* ------------------------------------------------------------------------

\* math.inf, the distance of a state no frontier state reaches
inf == 1000000

\* the value of a label cell that has not been written (Python None)
None == 999

\* marker for `max()` applied to an empty sequence (raises ValueError)
ValueError == 888888

\* the interval "*" of a context, which matches every value; the integer
\* intervals of a validated context are at least 1
Wildcard == 0

\* ------------------------------------------------------------------------
\* Arithmetic helpers
\* ------------------------------------------------------------------------

SetMin(S) == CHOOSE x \in S : \A y \in S : x <= y

SetMax(S) == CHOOSE x \in S : \A y \in S : x >= y

min(a, b) == IF a <= b THEN a ELSE b

max(a, b) == IF a >= b THEN a ELSE b

RECURSIVE Gcd(_, _)
Gcd(a, b) == IF b = 0 THEN a ELSE Gcd(b, a % b)

RECURSIVE LcmUpTo(_)
LcmUpTo(n) == IF n <= 1 THEN 1 ELSE LET l == LcmUpTo(n - 1) IN (l * n) \div Gcd(l, n)

RECURSIVE SeqProduct(_)
SeqProduct(q) == IF q = <<>> THEN 1 ELSE Head(q) * SeqProduct(Tail(q))

\* ------------------------------------------------------------------------
\* Networks and state space
\* ------------------------------------------------------------------------

\* the max-activity vectors explored: the chains {x:1}..{x:MaxActivity}
\* and the two-variable Boolean network {a:1, b:1} of the conjunction scenario
Networks == { <<m>> : m \in 1..MaxActivity } \cup { <<1, 1>> }

\* StateTransitionGraph._generate_all_states
generate_all_states(maxes) ==
    { s \in [1..Len(maxes) -> 0..MaxActivity] : \A i \in 1..Len(maxes) : s[i] <= maxes[i] }

\* common denominator of the weights 1/m_i
WeightScale(maxes) == SeqProduct(maxes)

\* weights = [1 / max_activity for max_activity in max_activities], scaled
weights(maxes) == [i \in 1..Len(maxes) |-> WeightScale(maxes) \div maxes[i]]

\* greatest scaled distance between two states of any explored network
MaxDistance == SetMax({ Len(maxes) * WeightScale(maxes) : maxes \in Networks })

\* labels are integer multiples of 1 / LabelScale
LabelScale == LcmUpTo(MaxDistance)

\* ------------------------------------------------------------------------
\* Keyed priority queues (priority_queue.py).  A heap is the function from
\* the items it holds to their stored keys.
\* ------------------------------------------------------------------------

EmptyHeap == [x \in {} |-> 0]

\* MinPriorityQueue._insert / MaxPriorityQueue._insert on the stored key
heap_insert(heap, item, stored) ==
    [x \in DOMAIN heap \cup {item} |-> IF x = item THEN stored ELSE heap[x]]

\* decrease_priority storing the key whatever key the item has
decrease_priority_overwrite(heap, item, key) ==
    heap_insert(heap, item, key)

\* MinPriorityQueue.decrease_priority
decrease_priority(heap, item, key) ==
    IF item \notin DOMAIN heap THEN heap_insert(heap, item, key)
    ELSE IF key < heap[item] THEN [heap EXCEPT ![item] = key]
    ELSE heap

\* MaxPriorityQueue.increase_priority: keys are stored negated
increase_priority(heap, item, key) ==
    IF item \notin DOMAIN heap THEN heap_insert(heap, item, -key)
    ELSE IF key > -heap[item] THEN [heap EXCEPT ![item] = -key]
    ELSE heap

\* heapdict.popitem: the items that may be returned, those of smallest
\* stored key (the order among equal keys is the heap's own business)
popitem_choices(heap) ==
    { x \in DOMAIN heap : \A y \in DOMAIN heap : heap[x] <= heap[y] }

\* the heap after popitem returned item
heap_remove(heap, item) == [x \in DOMAIN heap \ {item} |-> heap[x]]

\* `for p in predcs: queue.decrease_priority(p, key)`
RECURSIVE decrease_all(_, _, _)
decrease_all(heap, items, key) ==
    IF items = {} THEN heap
    ELSE LET p == CHOOSE p \in items : TRUE
         IN decrease_all(decrease_priority(heap, p, key), items \ {p}, key)

\* `for p in predcs: queue.increase_priority(p, key)`
RECURSIVE increase_all(_, _, _)
increase_all(heap, items, key) ==
    IF items = {} THEN heap
    ELSE LET p == CHOOSE p \in items : TRUE
         IN increase_all(increase_priority(heap, p, key), items \ {p}, key)

\* ------------------------------------------------------------------------
\* Weighted Hamming geometry (weighted_distance.py)
\* ------------------------------------------------------------------------

\* get_hamming_neighbors: one coordinate changed by -1 or +1, kept when the
\* changed coordinate stays within 0..max_activities[i]
get_hamming_neighbors(state, maxes) ==
    { [state EXCEPT ![c[1]] = @ + c[2]] :
        c \in { c \in (1..Len(maxes)) \X {-1, 1} :
                  0 <= state[c[1]] + c[2] /\ state[c[1]] + c[2] <= maxes[c[1]] } }

\* the weight yielded with a neighbour under get_hamming_neighbors' default
\* weights: 1 for every coordinate
step_size_default_weights(state, neighbor, maxes) == WeightScale(maxes)

\* the weight yielded with a neighbour: weights[i] of the coordinate changed
step_size(state, neighbor, maxes) ==
    LET i == CHOOSE i \in 1..Len(maxes) : neighbor[i] # state[i]
    IN weights(maxes)[i]

\* get_border_states: the pair (dov_border, co_dov_border)
get_border_states(dov, maxes) ==
    << { s \in dov : \E n \in get_hamming_neighbors(s, maxes) : n \notin dov },
       UNION { get_hamming_neighbors(s, maxes) \ dov : s \in dov } >>

\* the while loop of weighted_distance: Dijkstra from `state`, stopping at
\* the first border state extracted
RECURSIVE weighted_distance_loop(_, _, _, _)
weighted_distance_loop(heap, visited, border, maxes) ==
    IF DOMAIN heap = {} THEN inf
    ELSE LET current == CHOOSE c \in popitem_choices(heap) : TRUE
             dist == heap[current]
         IN IF current \in border THEN dist
            ELSE LET visited2 == visited \cup {current}
                     nbrs == get_hamming_neighbors(current, maxes) \ visited2
                     rest == heap_remove(heap, current)
                     heap2 == [n \in DOMAIN rest \cup nbrs |->
                                 IF n \notin nbrs THEN rest[n]
                                 ELSE IF n \in DOMAIN rest
                                      THEN min(rest[n], dist + step_size(current, n, maxes))
                                      ELSE dist + step_size(current, n, maxes)]
                 IN weighted_distance_loop(heap2, visited2, border, maxes)

\* weighted_distance(state, border, max_activities)
weighted_distance(state, border, maxes) ==
    weighted_distance_loop(heap_insert(EmptyHeap, state, 0), {}, border, maxes)

\* the while loop of find_extreme_depth: multi-source Dijkstra relaxing
\* only into states of dov
RECURSIVE find_extreme_depth_loop(_, _, _, _)
find_extreme_depth_loop(heap, distances, dov, maxes) ==
    IF DOMAIN heap = {} THEN distances
    ELSE LET current == CHOOSE c \in popitem_choices(heap) : TRUE
             current_distance == heap[current]
             rest == heap_remove(heap, current)
             better == { n \in get_hamming_neighbors(current, maxes) \cap dov :
                           distances[n] > current_distance + step_size(current, n, maxes) }
             distances2 == [s \in DOMAIN distances |->
                              IF s \in better
                              THEN current_distance + step_size(current, s, maxes)
                              ELSE distances[s]]
             heap2 == [n \in DOMAIN rest \cup better |->
                         IF n \notin better THEN rest[n]
                         ELSE IF n \in DOMAIN rest
                              THEN min(rest[n], distances2[n])
                              ELSE distances2[n]]
         IN find_extreme_depth_loop(heap2, distances2, dov, maxes)

\* find_extreme_depth(dov, co_border, max_act_values); `max` of an empty
\* generator raises ValueError
find_extreme_depth(dov, co_border, maxes) ==
    LET distances0 == [s \in dov \cup co_border |-> IF s \in co_border THEN 0 ELSE inf]
        heap0 == [s \in co_border |-> 0]
        distances == find_extreme_depth_loop(heap0, distances0, dov, maxes)
    IN IF dov = {} THEN ValueError
       ELSE SetMax({ distances[s] : s \in dov })

\* ------------------------------------------------------------------------
\* Formulae (ctl_formulae.py).  A formula is the tuple of its class name
\* and its fields; a variable is named by its position in the network's
\* variable order.  The label key repr(formula) is the formula itself.
\*   <<"AP", variable, operator, value>>     AtomicProposition
\*   <<"Negation", operand>>
\*   <<"Union", left, right>>  <<"Intersection", left, right>>
\*   <<"Boolean", value>>
\*   <<"Conjunction", left, right>>  <<"Disjunction", left, right>>
\*   <<"AG", operand>> ... <<"EX", operand>>
\*   <<"AU", left, right>>  <<"EU", ..>>  <<"AW", ..>>  <<"EW", ..>>
\* ------------------------------------------------------------------------

IsAtomic(f) == f[1] \in {"AP", "Negation", "Union", "Intersection"}

\* AtomicProposition.compute_dov, Union.compute_dov, Intersection.compute_dov
RECURSIVE compute_dov(_, _)
compute_dov(f, maxes) ==
    IF f[1] = "AP"
    THEN LET max_val == maxes[f[2]]
             valid_values == IF f[3] = ">=" THEN f[4]..max_val ELSE 0..f[4]
         IN { s \in [1..Len(maxes) -> min(0, f[4])..max(MaxActivity, f[4])] :
                \A i \in 1..Len(maxes) :
                    IF i = f[2] THEN s[i] \in valid_values ELSE s[i] \in 0..maxes[i] }
    ELSE IF f[1] = "Union"
    THEN compute_dov(f[2], maxes) \cup compute_dov(f[3], maxes)
    ELSE compute_dov(f[2], maxes) \cap compute_dov(f[3], maxes)

\* AtomicFormula.compute_dov_complement
compute_dov_complement(dov, maxes) == generate_all_states(maxes) \ dov

\* the normalised label wd / depth of the program, times LabelScale
Ratio(wd, depth) == IF depth >= inf THEN 0 ELSE (wd * LabelScale) \div depth

\* AtomicFormula.evaluate dividing the outside distance by max_depth, the
\* constant of the inside branch, instead of max_dist
atomic_evaluate_single_depth(f, maxes) ==
    LET dov == compute_dov(f, maxes)
        dov_complement == compute_dov_complement(dov, maxes)
        border == get_border_states(dov, maxes)[1]
        max_depth == find_extreme_depth(dov, border, maxes)
        max_dist == IF max_depth = ValueError THEN ValueError
                    ELSE find_extreme_depth(dov_complement \cup border, border, maxes)
    IN IF max_depth = ValueError \/ max_dist = ValueError
       THEN [raised |-> TRUE, column |-> [s \in generate_all_states(maxes) |-> None]]
       ELSE [raised |-> FALSE,
             column |-> [s \in generate_all_states(maxes) |->
                LET wd == weighted_distance(s, border, maxes)
                IN IF s \in dov
                   THEN (IF max_depth > 0 THEN Ratio(wd, max_depth) ELSE 0)
                   ELSE (IF max_depth > 0 THEN -Ratio(wd, max_depth) ELSE 0)]]

\* AtomicFormula.evaluate: the column written for repr(self), or raised
\* when find_extreme_state raises
atomic_evaluate(f, maxes) ==
    LET dov == compute_dov(f, maxes)
        dov_complement == compute_dov_complement(dov, maxes)
        border == get_border_states(dov, maxes)[1]
        max_depth == find_extreme_depth(dov, border, maxes)
        max_dist == IF max_depth = ValueError THEN ValueError
                    ELSE find_extreme_depth(dov_complement \cup border, border, maxes)
    IN IF max_depth = ValueError \/ max_dist = ValueError
       THEN [raised |-> TRUE, column |-> [s \in generate_all_states(maxes) |-> None]]
       ELSE [raised |-> FALSE,
             column |-> [s \in generate_all_states(maxes) |->
                LET wd == weighted_distance(s, border, maxes)
                IN IF s \in dov
                   THEN (IF max_depth > 0 THEN Ratio(wd, max_depth) ELSE 0)
                   ELSE (IF max_depth > 0 THEN -Ratio(wd, max_dist) ELSE 0)]]

\* ------------------------------------------------------------------------
\* Sub-formula enumeration
\* ------------------------------------------------------------------------

UnaryOps == {"AG", "EG", "AF", "EF", "AX", "EX"}

BinaryOps == {"Conjunction", "Disjunction", "AU", "EU", "AW", "EW"}

\* the operators evaluated by a priority-queue loop
LoopOps == {"AG", "EG", "AF", "EF", "AU", "EU"}

\* get_subformulae listing the right operand's sub-formulae before the
\* left operand's
RECURSIVE get_subformulae_right_first(_)
get_subformulae_right_first(f) ==
    IF f[1] \in UnaryOps THEN Append(get_subformulae_right_first(f[2]), f)
    ELSE IF f[1] \in BinaryOps
    THEN Append(get_subformulae_right_first(f[3]) \o get_subformulae_right_first(f[2]), f)
    ELSE <<f>>

\* get_subformulae listing an operator before its operands' sub-formulae
RECURSIVE get_subformulae_parent_first(_)
get_subformulae_parent_first(f) ==
    IF f[1] \in UnaryOps THEN <<f>> \o get_subformulae_parent_first(f[2])
    ELSE IF f[1] \in BinaryOps
    THEN <<f>> \o get_subformulae_parent_first(f[2]) \o get_subformulae_parent_first(f[3])
    ELSE <<f>>

\* get_subformulae of every class: an atomic formula and a Boolean are
\* leaves, a unary operator lists its operand's sub-formulae and itself, a
\* binary operator the left's, the right's and itself
RECURSIVE get_subformulae(_)
get_subformulae(f) ==
    IF f[1] \in UnaryOps THEN Append(get_subformulae(f[2]), f)
    ELSE IF f[1] \in BinaryOps
    THEN Append(get_subformulae(f[2]) \o get_subformulae(f[3]), f)
    ELSE <<f>>

\* ------------------------------------------------------------------------
\* State
\* ------------------------------------------------------------------------

VARIABLES
    variables,              \* ks.stg.variables: the maximum activities, in order
    graph,                  \* ks.stg.graph: state |-> set of successors
    subformulae,            \* the list model_check iterates over
    quantitative_labeling,  \* state |-> (key |-> label or None)
    idx,                    \* position of model_check in subformulae
    pc,                     \* "call": between evaluate calls, "loop": inside
                            \* a while loop, "raised": an exception escaped
    running,                \* stack of the formulae whose evaluate is active
    queue,                  \* queue.heap of the running evaluate
    given,                  \* the formula as it was constructed
    formula,                \* the formula object eliminate_negation rewrites
    dov,                    \* the set compute_dov returned
    queue_class,            \* the class of the queue object under test
    last_call,              \* the last queue method called and what it returned
    regulations,            \* stg.regulations: target |-> its regulation
    arguments,              \* the arguments of the function called
    returned                \* what the function returned

vars == <<variables, graph, subformulae, quantitative_labeling, idx, pc, running, queue,
          given, formula, dov, queue_class, last_call, regulations,
                   arguments, returned>>

\* the state model_check never touches
outside_model_check == <<given, formula, dov, queue_class, last_call, regulations,
                   arguments, returned>>

states == generate_all_states(variables)

\* ks.stg.graph.successors / predecessors
successors(state) == graph[state]

predecessors(state) == { p \in DOMAIN graph : state \in graph[p] }

\* formulae_evaluations[state][key] = column[state] for every state
write_column(L, key, column) ==
    [s \in DOMAIN L |->
        [k \in DOMAIN L[s] \cup {key} |-> IF k = key THEN column[s] ELSE L[s][k]]]

\* formulae_evaluations[state][key] = value for one state
write_cell(L, state, key, value) ==
    [L EXCEPT ![state] =
        [k \in DOMAIN L[state] \cup {key} |-> IF k = key THEN value ELSE L[state][k]]]

\* KripkeStructure._init_quantitative_labeling over the de-duplicated labels
init_quantitative_labeling(sts, labels) ==
    [s \in sts |-> [k \in labels |-> None]]

\* ------------------------------------------------------------------------
\* evaluate of the fixed-point operators (ctl_formulae.py).  Each is split
\* at its while loop: the part before the loop (xx_init) and one iteration
\* for the extracted state (xx_step).  Both return the label table and the
\* heap they leave.
\* ------------------------------------------------------------------------

\* the edges (p, state) in which p is a predecessor of state
Edges == { e \in states \X states : e[2] \in graph[e[1]] }

\* `for state ...: for p in predcs: queue.decrease_priority(p, L[state][key])`
RECURSIVE seed_min_queue(_, _, _, _)
seed_min_queue(heap, edges, L, key) ==
    IF edges = {} THEN heap
    ELSE LET e == CHOOSE e \in edges : TRUE
         IN seed_min_queue(decrease_priority(heap, e[1], L[e[2]][key]), edges \ {e}, L, key)

\* `for state ...: for p in predcs: queue.increase_priority(p, L[state][key])`
RECURSIVE seed_max_queue(_, _, _, _)
seed_max_queue(heap, edges, L, key) ==
    IF edges = {} THEN heap
    ELSE LET e == CHOOSE e \in edges : TRUE
         IN seed_max_queue(increase_priority(heap, e[1], L[e[2]][key]), edges \ {e}, L, key)

\* the copy of an operand column into the operator's own column
copy_column(L, f, key) == write_column(L, f, [s \in states |-> L[s][key]])

\* AG.evaluate, lines 305-310
ag_init(L, f) ==
    [L |-> copy_column(L, f, f[2]), heap |-> seed_min_queue(EmptyHeap, Edges, L, f[2])]

\* AG.evaluate replacing the label whenever the successors' minimum differs
\* from it
ag_step_any_change(L, heap, state, f) ==
    LET rest == heap_remove(heap, state)
        min_value == SetMin({ L[s][f[2]] : s \in successors(state) })
    IN IF min_value # L[state][f]
       THEN [L |-> write_cell(L, state, f, min_value),
             heap |-> decrease_all(rest, predecessors(state), L[state][f[2]])]
       ELSE [L |-> L, heap |-> rest]

\* AG.evaluate notifying the predecessors of the extracted state whether
\* or not its label changed
ag_step_always_notifies(L, heap, state, f) ==
    LET rest == heap_remove(heap, state)
        min_value == SetMin({ L[s][f[2]] : s \in successors(state) })
    IN IF min_value < L[state][f]
       THEN [L |-> write_cell(L, state, f, min_value),
             heap |-> decrease_all(rest, predecessors(state), L[state][f[2]])]
       ELSE [L |-> L, heap |-> decrease_all(rest, predecessors(state), L[state][f[2]])]

\* AG.evaluate, lines 312-321, for the extracted state
ag_step(L, heap, state, f) ==
    LET rest == heap_remove(heap, state)
        min_value == SetMin({ L[s][f[2]] : s \in successors(state) })
    IN IF min_value < L[state][f]
       THEN [L |-> write_cell(L, state, f, min_value),
             heap |-> decrease_all(rest, predecessors(state), L[state][f[2]])]
       ELSE [L |-> L, heap |-> rest]

\* EG.evaluate, lines 341-346
eg_init(L, f) ==
    [L |-> copy_column(L, f, f[2]), heap |-> seed_min_queue(EmptyHeap, Edges, L, f[2])]

\* EG.evaluate, lines 348-357
eg_step(L, heap, state, f) ==
    LET rest == heap_remove(heap, state)
        max_value == SetMax({ L[s][f[2]] : s \in successors(state) })
    IN IF max_value < L[state][f]
       THEN [L |-> write_cell(L, state, f, max_value),
             heap |-> decrease_all(rest, predecessors(state), L[state][f[2]])]
       ELSE [L |-> L, heap |-> rest]

\* AF.evaluate, lines 377-382
af_init(L, f) ==
    [L |-> copy_column(L, f, f[2]), heap |-> seed_max_queue(EmptyHeap, Edges, L, f[2])]

\* AF.evaluate, lines 384-393
af_step(L, heap, state, f) ==
    LET rest == heap_remove(heap, state)
        min_value == SetMin({ L[s][f[2]] : s \in successors(state) })
    IN IF min_value > L[state][f]
       THEN [L |-> write_cell(L, state, f, min_value),
             heap |-> increase_all(rest, predecessors(state), L[state][f[2]])]
       ELSE [L |-> L, heap |-> rest]

\* EF.evaluate, lines 413-418
ef_init(L, f) ==
    [L |-> copy_column(L, f, f[2]), heap |-> seed_max_queue(EmptyHeap, Edges, L, f[2])]

\* EF.evaluate, lines 420-429
ef_step(L, heap, state, f) ==
    LET rest == heap_remove(heap, state)
        max_value == SetMax({ L[s][f[2]] : s \in successors(state) })
    IN IF max_value > L[state][f]
       THEN [L |-> write_cell(L, state, f, max_value),
             heap |-> increase_all(rest, predecessors(state), L[state][f[2]])]
       ELSE [L |-> L, heap |-> rest]

\* AU.evaluate, lines 499-504
au_init(L, f) ==
    [L |-> copy_column(L, f, f[3]), heap |-> seed_max_queue(EmptyHeap, Edges, L, f[3])]

\* AU.evaluate relaxing over the successors' right-operand labels instead
\* of their current until labels
au_step_reads_operand(L, heap, state, f) ==
    LET rest == heap_remove(heap, state)
        min_until_nexts == SetMin({ L[s][f[3]] : s \in successors(state) })
        left_self == L[state][f[2]]
        until_self == L[state][f]
        extend == min(left_self, min_until_nexts)
    IN IF extend > until_self
       THEN [L |-> write_cell(L, state, f, extend),
             heap |-> increase_all(rest, predecessors(state), extend)]
       ELSE [L |-> L, heap |-> rest]

\* AU.evaluate writing the raised label without notifying the predecessors
au_step_without_notification(L, heap, state, f) ==
    LET rest == heap_remove(heap, state)
        min_until_nexts == SetMin({ L[s][f] : s \in successors(state) })
        left_self == L[state][f[2]]
        until_self == L[state][f]
        extend == min(left_self, min_until_nexts)
    IN IF extend > until_self
       THEN [L |-> write_cell(L, state, f, extend), heap |-> rest]
       ELSE [L |-> L, heap |-> rest]

\* AU.evaluate, lines 506-516
au_step(L, heap, state, f) ==
    LET rest == heap_remove(heap, state)
        min_until_nexts == SetMin({ L[s][f] : s \in successors(state) })
        left_self == L[state][f[2]]
        until_self == L[state][f]
        extend == min(left_self, min_until_nexts)
    IN IF extend > until_self
       THEN [L |-> write_cell(L, state, f, extend),
             heap |-> increase_all(rest, predecessors(state), extend)]
       ELSE [L |-> L, heap |-> rest]

\* EU.evaluate, lines 542-547
eu_init(L, f) ==
    [L |-> copy_column(L, f, f[3]), heap |-> seed_max_queue(EmptyHeap, Edges, L, f[3])]

\* EU.evaluate relaxing over the successors' right-operand labels instead
\* of their current until labels
eu_step_reads_operand(L, heap, state, f) ==
    LET rest == heap_remove(heap, state)
        max_until_nexts == SetMax({ L[s][f[3]] : s \in successors(state) })
        left_self == L[state][f[2]]
        until_self == L[state][f]
        extend == min(left_self, max_until_nexts)
    IN IF extend > until_self
       THEN [L |-> write_cell(L, state, f, extend),
             heap |-> increase_all(rest, predecessors(state), extend)]
       ELSE [L |-> L, heap |-> rest]

\* EU.evaluate, lines 549-559
eu_step(L, heap, state, f) ==
    LET rest == heap_remove(heap, state)
        max_until_nexts == SetMax({ L[s][f] : s \in successors(state) })
        left_self == L[state][f[2]]
        until_self == L[state][f]
        extend == min(left_self, max_until_nexts)
    IN IF extend > until_self
       THEN [L |-> write_cell(L, state, f, extend),
             heap |-> increase_all(rest, predecessors(state), extend)]
       ELSE [L |-> L, heap |-> rest]

\* dispatch of evaluate on the class of the formula
loop_init(L, f) ==
    CASE f[1] = "AG" -> ag_init(L, f)
      [] f[1] = "EG" -> eg_init(L, f)
      [] f[1] = "AF" -> af_init(L, f)
      [] f[1] = "EF" -> ef_init(L, f)
      [] f[1] = "AU" -> au_init(L, f)
      [] f[1] = "EU" -> eu_init(L, f)

loop_step(L, heap, state, f) ==
    CASE f[1] = "AG" -> ag_step(L, heap, state, f)
      [] f[1] = "EG" -> eg_step(L, heap, state, f)
      [] f[1] = "AF" -> af_step(L, heap, state, f)
      [] f[1] = "EF" -> ef_step(L, heap, state, f)
      [] f[1] = "AU" -> au_step(L, heap, state, f)
      [] f[1] = "EU" -> eu_step(L, heap, state, f)

\* the two operators AW.evaluate / EW.evaluate construct and run
weak_globally(f) == IF f[1] = "AW" THEN <<"AG", f[2]>> ELSE <<"EG", f[2]>>

weak_until(f) == IF f[1] = "AW" THEN <<"AU", f[2], f[3]>> ELSE <<"EU", f[2], f[3]>>

\* AW.evaluate line 594-595, EW.evaluate line 631-632: the final column
weak_column(L, f) ==
    [s \in states |-> max(L[s][weak_globally(f)], L[s][weak_until(f)])]

\* ------------------------------------------------------------------------
\* model_check (kripke_structure.py) and the evaluate calls it makes
\* ------------------------------------------------------------------------

Calling == pc = "call" /\ idx <= Len(subformulae)

\* model_check has returned the label table
Done == pc = "call" /\ idx > Len(subformulae)

\* the formula whose evaluate model_check calls next
cur == subformulae[idx]

\* an evaluate call that returns at once with the table L
Return(L) ==
    /\ quantitative_labeling' = L
    /\ idx' = idx + 1
    /\ UNCHANGED <<variables, graph, subformulae, pc, running, queue>>
    /\ UNCHANGED outside_model_check

\* AtomicFormula.evaluate
EvaluateAtomic ==
    /\ Calling
    /\ IsAtomic(cur)
    /\ LET r == atomic_evaluate(cur, variables)
       IN IF r.raised
          THEN /\ pc' = "raised"
               /\ UNCHANGED <<variables, graph, subformulae, quantitative_labeling,
                              idx, running, queue>>
               /\ UNCHANGED outside_model_check
          ELSE Return(write_column(quantitative_labeling, cur, r.column))

\* Boolean.evaluate
EvaluateBoolean ==
    /\ Calling
    /\ cur[1] = "Boolean"
    /\ Return(write_column(quantitative_labeling, cur,
                [s \in states |-> IF cur[2] THEN LabelScale ELSE -LabelScale]))

\* Conjunction.evaluate writing the left operand's label
EvaluateConjunctionLeftOnly ==
    /\ Calling
    /\ cur[1] = "Conjunction"
    /\ Return(write_column(quantitative_labeling, cur,
                [s \in states |-> quantitative_labeling[s][cur[2]]]))

\* Conjunction.evaluate
EvaluateConjunction ==
    /\ Calling
    /\ cur[1] = "Conjunction"
    /\ Return(write_column(quantitative_labeling, cur,
                [s \in states |-> min(quantitative_labeling[s][cur[2]],
                                      quantitative_labeling[s][cur[3]])]))

\* Disjunction.evaluate
EvaluateDisjunction ==
    /\ Calling
    /\ cur[1] = "Disjunction"
    /\ Return(write_column(quantitative_labeling, cur,
                [s \in states |-> max(quantitative_labeling[s][cur[2]],
                                      quantitative_labeling[s][cur[3]])]))

\* AX.evaluate
EvaluateAX ==
    /\ Calling
    /\ cur[1] = "AX"
    /\ Return(write_column(quantitative_labeling, cur,
                [s \in states |->
                    SetMin({ quantitative_labeling[t][cur[2]] : t \in successors(s) })]))

\* EX.evaluate
EvaluateEX ==
    /\ Calling
    /\ cur[1] = "EX"
    /\ Return(write_column(quantitative_labeling, cur,
                [s \in states |->
                    SetMax({ quantitative_labeling[t][cur[2]] : t \in successors(s) })]))

\* AG/EG/AF/EF/AU/EU.evaluate up to the while loop
EvaluateLoopBegin ==
    /\ Calling
    /\ cur[1] \in LoopOps
    /\ LET r == loop_init(quantitative_labeling, cur)
       IN /\ quantitative_labeling' = r.L
          /\ queue' = r.heap
    /\ running' = <<cur>>
    /\ pc' = "loop"
    /\ UNCHANGED <<variables, graph, subformulae, idx>>
    /\ UNCHANGED outside_model_check

\* AW/EW.evaluate up to the while loop of ag.evaluate / eg.evaluate
EvaluateWeakBegin ==
    /\ Calling
    /\ cur[1] \in {"AW", "EW"}
    /\ LET r == loop_init(quantitative_labeling, weak_globally(cur))
       IN /\ quantitative_labeling' = r.L
          /\ queue' = r.heap
    /\ running' = <<cur, weak_globally(cur)>>
    /\ pc' = "loop"
    /\ UNCHANGED <<variables, graph, subformulae, idx>>
    /\ UNCHANGED outside_model_check

\* one iteration of the running while loop; when it leaves the heap empty
\* the loop ends and the code after it runs: evaluate returns to
\* model_check, or AW/EW.evaluate goes on with au/eu.evaluate and, after
\* that, writes its own column and returns
LoopIteration ==
    /\ pc = "loop"
    /\ \E state \in popitem_choices(queue) :
        LET f == running[Len(running)]
            r == loop_step(quantitative_labeling, queue, state, f)
        IN IF DOMAIN r.heap # {}
           THEN /\ quantitative_labeling' = r.L
                /\ queue' = r.heap
                /\ UNCHANGED <<idx, pc, running>>
           ELSE IF Len(running) = 1
           THEN /\ quantitative_labeling' = r.L
                /\ queue' = EmptyHeap
                /\ idx' = idx + 1
                /\ pc' = "call"
                /\ running' = <<>>
           ELSE IF f[1] \in {"AG", "EG"}
           THEN LET u == loop_init(r.L, weak_until(running[1]))
                IN /\ quantitative_labeling' = u.L
                   /\ queue' = u.heap
                   /\ running' = <<running[1], weak_until(running[1])>>
                   /\ UNCHANGED <<idx, pc>>
           ELSE /\ quantitative_labeling' =
                      write_column(r.L, running[1], weak_column(r.L, running[1]))
                /\ queue' = EmptyHeap
                /\ idx' = idx + 1
                /\ pc' = "call"
                /\ running' = <<>>
    /\ UNCHANGED <<variables, graph, subformulae>>
    /\ UNCHANGED outside_model_check

Next ==
    \/ EvaluateAtomic
    \/ EvaluateBoolean
    \/ EvaluateConjunction
    \/ EvaluateDisjunction
    \/ EvaluateAX
    \/ EvaluateEX
    \/ EvaluateLoopBegin
    \/ EvaluateWeakBegin
    \/ LoopIteration

\* ------------------------------------------------------------------------
\* Inputs: state-transition graphs and formulae
\* ------------------------------------------------------------------------

\* the successor sets StateTransitionGraph._construct_graph can give a
\* state: the state itself when no variable moves, otherwise one +-1 step
\* for each variable that moves (_compute_state_successors appends at most
\* one successor per variable)
SuccessorChoices(state, maxes) ==
    { {state} } \cup
    { T \in SUBSET get_hamming_neighbors(state, maxes) :
        /\ T # {}
        /\ \A a \in T : \A b \in T :
              a # b => \E i \in 1..Len(maxes) : a[i] # state[i] /\ b[i] = state[i] }

\* the functions giving every state of S one of its choices
RECURSIVE GraphsOver(_, _)
GraphsOver(S, maxes) ==
    IF S = {} THEN { EmptyHeap }
    ELSE LET s == CHOOSE s \in S : TRUE
         IN { [x \in DOMAIN g \cup {s} |-> IF x = s THEN T ELSE g[x]] :
                g \in GraphsOver(S \ {s}, maxes), T \in SuccessorChoices(s, maxes) }

\* the graphs a network over the given maxima can produce
NetworkGraphs(maxes) == GraphsOver(generate_all_states(maxes), maxes)

\* the atomic propositions v >= k and v <= k with k within 0..m_v
APs(maxes) ==
    { <<"AP", c[1], c[2], c[3]>> :
        c \in { c \in (1..Len(maxes)) \X {">=", "<="} \X (0..MaxActivity) :
                  c[3] <= maxes[c[1]] } }

\* a proposition that neither holds everywhere nor nowhere
Proper(p, maxes) ==
    compute_dov(p, maxes) \notin { {}, generate_all_states(maxes) }

\* the unions of two proper propositions over different variables
Unions(maxes) ==
    { <<"Union", p, q>> : p \in { p \in APs(maxes) : p[2] = 1 /\ Proper(p, maxes) },
                          q \in { q \in APs(maxes) : q[2] = 2 /\ Proper(q, maxes) } }

\* the intersections v >= 1 & v <= 0 of the first variable, valid nowhere
Contradictions(maxes) ==
    { <<"Intersection", <<"AP", 1, ">=", 1>>, <<"AP", 1, "<=", 0>>>> }

\* the atomic-stratum formulae explored
Atoms(maxes) == APs(maxes) \cup Unions(maxes) \cup Contradictions(maxes)

Booleans == { <<"Boolean", TRUE>>, <<"Boolean", FALSE>> }

\* the operands given to the temporal and Boolean operators: every
\* proposition of a one-variable network, the unions of a larger one
Operands(maxes) == IF Len(maxes) = 1 THEN APs(maxes) ELSE Unions(maxes)

\* the comparison an operand starts with
Leading(a) == IF a[1] = "AP" THEN a[3] ELSE a[2][3]

\* operands on the left and on the right of a binary operator
LeftOperands(maxes) == { a \in Operands(maxes) : Leading(a) = ">=" }

RightOperands(maxes) ==
    { a \in Operands(maxes) : Leading(a) = "<=" } \cup { <<"Boolean", FALSE>> }

\* a weak until beside the globally or the until over the same operands:
\* AG phi && A phi W psi, A phi W psi && A phi U psi, EG phi && E phi W psi
WeakBesideStrong(maxes) ==
    LET phi == <<"AP", 1, ">=", 1>>
        psi == <<"AP", Len(maxes), "<=", 0>>
    IN { <<"Conjunction", <<"AG", phi>>, <<"AW", phi, psi>>>>,
         <<"Conjunction", <<"AW", phi, psi>>, <<"AU", phi, psi>>>>,
         <<"Conjunction", <<"EG", phi>>, <<"EW", phi, psi>>>> }

\* the formulae handed to model_check
Formulas(maxes) ==
    Atoms(maxes) \cup Booleans
    \cup { <<op, a>> : op \in UnaryOps, a \in Operands(maxes) }
    \cup { <<op, a, b>> : op \in BinaryOps, a \in LeftOperands(maxes),
                          b \in RightOperands(maxes) }
    \cup { <<"EF", <<"Conjunction", a, b>>>> :
              a \in { a \in APs(maxes) : a[2] = 1 /\ a[3] = ">=" /\ a[4] = 1 },
              b \in { b \in APs(maxes) : b[2] = 2 /\ b[3] = ">=" /\ b[4] = 1 } }
    \cup WeakBesideStrong(maxes)

\* the inputs of every explored network, computed once
GraphsOf == [n \in Networks |-> NetworkGraphs(n)]

FormulasOf == [n \in Networks |-> Formulas(n)]

\* the keys of the label table: repr of every sub-formula, duplicates removed
remove_duplicate_labels(subs) == { subs[i] : i \in 1..Len(subs) }

Init ==
    /\ variables \in Networks
    /\ graph \in GraphsOf[variables]
    /\ \E phi \in FormulasOf[variables] : subformulae = get_subformulae(phi)
    /\ quantitative_labeling =
          init_quantitative_labeling(generate_all_states(variables),
                                     remove_duplicate_labels(subformulae))
    /\ idx = 1
    /\ pc = "call"
    /\ running = <<>>
    /\ queue = EmptyHeap
    /\ given = <<>>
    /\ formula = <<>>
    /\ dov = {}
    /\ queue_class = ""
    /\ last_call = <<>>
    /\ regulations = EmptyHeap
    /\ arguments = <<>>
    /\ returned = <<>>

Spec == Init /\ [][Next]_vars

\* every label of the table is unset or a number within [-1, +1]
TypeOK ==
    \A s \in states : \A k \in DOMAIN quantitative_labeling[s] :
        quantitative_labeling[s][k] \in (-LabelScale..LabelScale) \cup {None}

\* ------------------------------------------------------------------------
\* SpecOp: one fixed-point operator run on an arbitrary total graph over
\* the states of OpNetwork, its operands already labelled with arbitrary
\* values
\* ------------------------------------------------------------------------

\* the network {x:2} of the chain scenario: three states
OpNetwork == <<2>>

\* the operand sub-formulae, already evaluated when the operator runs
PHI == <<"Operand", "phi">>

PSI == <<"Operand", "psi">>

\* the labels an operand may carry: -1, 0 and +1
OperandValues == { -LabelScale, 0, LabelScale }

\* every total graph with at most MaxSuccessors successors per state
TotalGraphs ==
    [generate_all_states(OpNetwork) ->
        { T \in SUBSET generate_all_states(OpNetwork) :
            T # {} /\ Cardinality(T) <= MaxSuccessors }]

\* the labelings of an operand
Labelings == [generate_all_states(OpNetwork) -> OperandValues]

InitOp ==
    /\ variables = OpNetwork
    /\ graph \in TotalGraphs
    /\ \E op \in LoopOps :
          subformulae = <<IF op \in {"AU", "EU"} THEN <<op, PHI, PSI>> ELSE <<op, PHI>>>>
    /\ \E phi \in Labelings : \E psi \in Labelings :
          /\ subformulae[1][1] \notin {"AU", "EU"} => psi = [s \in DOMAIN psi |-> 0]
          /\ quantitative_labeling =
                [s \in generate_all_states(OpNetwork) |->
                    [k \in {PHI, PSI, subformulae[1]} |->
                        IF k = PHI THEN phi[s] ELSE IF k = PSI THEN psi[s] ELSE None]]
    /\ idx = 1
    /\ pc = "call"
    /\ running = <<>>
    /\ queue = EmptyHeap
    /\ given = <<>>
    /\ formula = <<>>
    /\ dov = {}
    /\ queue_class = ""
    /\ last_call = <<>>
    /\ regulations = EmptyHeap
    /\ arguments = <<>>
    /\ returned = <<>>

NextOp ==
    \/ EvaluateLoopBegin
    \/ LoopIteration

SpecOp == InitOp /\ [][NextOp]_vars

\* ------------------------------------------------------------------------
\* SpecLoop: one fixed-point operator run to its end on an arbitrary total
\* graph over the two states of LoopNetwork, the program running on: a call
\* or a loop iteration that can be executed is executed
\* ------------------------------------------------------------------------

\* the Boolean network {x:1}: two states
LoopNetwork == <<1>>

\* every total graph over its states
LoopGraphs ==
    [generate_all_states(LoopNetwork) ->
        { T \in SUBSET generate_all_states(LoopNetwork) :
            T # {} /\ Cardinality(T) <= MaxSuccessors }]

\* the labelings of an operand
LoopLabelings == [generate_all_states(LoopNetwork) -> OperandValues]

InitLoop ==
    /\ variables = LoopNetwork
    /\ graph \in LoopGraphs
    /\ \E op \in LoopOps :
          subformulae = <<IF op \in {"AU", "EU"} THEN <<op, PHI, PSI>> ELSE <<op, PHI>>>>
    /\ \E phi \in LoopLabelings : \E psi \in LoopLabelings :
          /\ subformulae[1][1] \notin {"AU", "EU"} => psi = [s \in DOMAIN psi |-> 0]
          /\ quantitative_labeling =
                [s \in generate_all_states(LoopNetwork) |->
                    [k \in {PHI, PSI, subformulae[1]} |->
                        IF k = PHI THEN phi[s] ELSE IF k = PSI THEN psi[s] ELSE None]]
    /\ idx = 1
    /\ pc = "call"
    /\ running = <<>>
    /\ queue = EmptyHeap
    /\ given = <<>>
    /\ formula = <<>>
    /\ dov = {}
    /\ queue_class = ""
    /\ last_call = <<>>
    /\ regulations = EmptyHeap
    /\ arguments = <<>>
    /\ returned = <<>>

NextLoop ==
    \/ EvaluateLoopBegin
    \/ LoopIteration

SpecLoop == InitLoop /\ [][NextLoop]_vars /\ WF_vars(NextLoop)

\* ------------------------------------------------------------------------
\* SpecAgain: SpecOp with model_check called a second time on the same
\* structure and sub-formula list
\* ------------------------------------------------------------------------

\* ks.model_check(subformulae) once more, the table the first call
\* returned being kept for comparison
ModelCheckAgain ==
    /\ Done
    /\ returned = <<>>
    /\ returned' = quantitative_labeling
    /\ idx' = 1
    /\ UNCHANGED <<variables, graph, subformulae, quantitative_labeling, pc, running,
                   queue, given, formula, dov, queue_class, last_call, regulations,
                   arguments>>

NextAgain ==
    \/ EvaluateLoopBegin
    \/ LoopIteration
    \/ ModelCheckAgain

\* the labels -1 and +1
ExtremeValues == { -LabelScale, LabelScale }

\* the labelings of an operand with these labels
ExtremeLabelings == [generate_all_states(OpNetwork) -> ExtremeValues]

InitAgain ==
    /\ variables = OpNetwork
    /\ graph \in TotalGraphs
    /\ \E op \in LoopOps :
          subformulae = <<IF op \in {"AU", "EU"} THEN <<op, PHI, PSI>> ELSE <<op, PHI>>>>
    /\ \E phi \in ExtremeLabelings : \E psi \in ExtremeLabelings :
          /\ subformulae[1][1] \notin {"AU", "EU"} => psi = [s \in DOMAIN psi |-> LabelScale]
          /\ quantitative_labeling =
                [s \in generate_all_states(OpNetwork) |->
                    [k \in {PHI, PSI, subformulae[1]} |->
                        IF k = PHI THEN phi[s] ELSE IF k = PSI THEN psi[s] ELSE None]]
    /\ idx = 1
    /\ pc = "call"
    /\ running = <<>>
    /\ queue = EmptyHeap
    /\ given = <<>>
    /\ formula = <<>>
    /\ dov = {}
    /\ queue_class = ""
    /\ last_call = <<>>
    /\ regulations = EmptyHeap
    /\ arguments = <<>>
    /\ returned = <<>>

SpecAgain == InitAgain /\ [][NextAgain]_vars

\* ------------------------------------------------------------------------
\* SpecOrder: the six fixed-point operators evaluated one after the other
\* on one total graph over the states of OpNetwork and one pair of operand
\* labelings
\* ------------------------------------------------------------------------

\* AG phi, EG phi, AF phi, EF phi, A phi U psi, E phi U psi
SixOperators ==
    << <<"AG", PHI>>, <<"EG", PHI>>, <<"AF", PHI>>, <<"EF", PHI>>,
       <<"AU", PHI, PSI>>, <<"EU", PHI, PSI>> >>

InitOrder ==
    /\ variables = OpNetwork
    /\ graph \in TotalGraphs
    /\ subformulae = SixOperators
    /\ \E phi \in Labelings : \E psi \in ExtremeLabelings :
          quantitative_labeling =
              [s \in generate_all_states(OpNetwork) |->
                  [k \in {PHI, PSI} \cup remove_duplicate_labels(SixOperators) |->
                      IF k = PHI THEN phi[s] ELSE IF k = PSI THEN psi[s] ELSE None]]
    /\ idx = 1
    /\ pc = "call"
    /\ running = <<>>
    /\ queue = EmptyHeap
    /\ given = <<>>
    /\ formula = <<>>
    /\ dov = {}
    /\ queue_class = ""
    /\ last_call = <<>>
    /\ regulations = EmptyHeap
    /\ arguments = <<>>
    /\ returned = <<>>

NextOrder ==
    \/ EvaluateLoopBegin
    \/ LoopIteration

SpecOrder == InitOrder /\ [][NextOrder]_vars

\* ------------------------------------------------------------------------
\* Negation elimination (ctl_formulae.py)
\* ------------------------------------------------------------------------

\* AtomicProposition.negate, Negation.negate, Union.negate,
\* Intersection.negate
RECURSIVE negate(_)
negate(f) ==
    CASE f[1] = "AP" ->
            IF f[3] = ">=" THEN <<"AP", f[2], "<=", f[4] - 1>>
                           ELSE <<"AP", f[2], ">=", f[4] + 1>>
      [] f[1] = "Negation" -> negate(f[2])
      [] f[1] = "Union" -> <<"Intersection", <<"Negation", f[2]>>, <<"Negation", f[3]>>>>
      [] f[1] = "Intersection" -> <<"Union", <<"Negation", f[2]>>, <<"Negation", f[3]>>>>

\* `if isinstance(self.operand, Negation): self.operand = self.operand.negate()`
negate_if_negation(operand) ==
    IF operand[1] = "Negation" THEN negate(operand) ELSE operand

\* eliminate_negation calling eliminate_negation of an operand before it
\* replaces a Negation operand by its negate()
RECURSIVE eliminate_negation_operand_first(_)
eliminate_negation_operand_first(f) ==
    CASE f[1] \in {"AP", "Boolean"} -> f
      [] f[1] = "Negation" ->
            IF f[2][1] = "Negation" THEN eliminate_negation_operand_first(f[2][2]) ELSE f
      [] f[1] \in UnaryOps ->
            <<f[1], negate_if_negation(eliminate_negation_operand_first(f[2]))>>
      [] OTHER ->
            <<f[1], negate_if_negation(eliminate_negation_operand_first(f[2])),
                    negate_if_negation(eliminate_negation_operand_first(f[3]))>>

\* eliminate_negation of every class; the value is the tree the rewritten
\* object stands for
RECURSIVE eliminate_negation(_)
eliminate_negation(f) ==
    CASE f[1] \in {"AP", "Boolean"} -> f
      [] f[1] = "Negation" ->
            IF f[2][1] = "Negation" THEN eliminate_negation(f[2][2]) ELSE f
      [] f[1] \in UnaryOps ->
            <<f[1], eliminate_negation(negate_if_negation(f[2]))>>
      [] OTHER ->
            <<f[1], eliminate_negation(negate_if_negation(f[2])),
                    eliminate_negation(negate_if_negation(f[3]))>>

\* get_subformulae reaches Negation.get_subformulae, which raises
\* NotImplementedError: atomic formulae are not descended into
RECURSIVE get_subformulae_raises(_)
get_subformulae_raises(f) ==
    CASE f[1] = "Negation" -> TRUE
      [] f[1] \in UnaryOps -> get_subformulae_raises(f[2])
      [] f[1] \in BinaryOps -> get_subformulae_raises(f[2]) \/ get_subformulae_raises(f[3])
      [] OTHER -> FALSE

\* compute_dov reaches Negation.compute_dov, which raises
\* NotImplementedError: Union and Intersection evaluate both operands
RECURSIVE compute_dov_raises(_)
compute_dov_raises(f) ==
    CASE f[1] = "Negation" -> TRUE
      [] f[1] \in {"Union", "Intersection"} ->
            compute_dov_raises(f[2]) \/ compute_dov_raises(f[3])
      [] OTHER -> FALSE

\* ------------------------------------------------------------------------
\* SpecFormula: a formula is constructed, eliminate_negation is applied to
\* it (and once more to its result), then get_subformulae or compute_dov
\* ------------------------------------------------------------------------

\* formula = formula.eliminate_negation()
EliminateNegation ==
    /\ pc \in {"constructed", "eliminated"}
    /\ formula' = eliminate_negation(formula)
    /\ pc' = IF pc = "constructed" THEN "eliminated" ELSE "eliminated twice"
    /\ UNCHANGED <<variables, graph, subformulae, quantitative_labeling, idx, running,
                   queue, given, dov, queue_class, last_call, regulations,
                   arguments, returned>>

\* subformulae = formula.get_subformulae()
GetSubformulae ==
    /\ pc = "eliminated"
    /\ IF get_subformulae_raises(formula)
       THEN pc' = "raised" /\ UNCHANGED subformulae
       ELSE pc' = "listed" /\ subformulae' = get_subformulae(formula)
    /\ UNCHANGED <<variables, graph, quantitative_labeling, idx, running, queue,
                   given, formula, dov, queue_class, last_call, regulations,
                   arguments, returned>>

\* dov = formula.compute_dov(max_activities) of an atomic-stratum formula
ComputeDov ==
    /\ pc = "eliminated"
    /\ IsAtomic(formula)
    /\ IF compute_dov_raises(formula)
       THEN pc' = "raised" /\ UNCHANGED dov
       ELSE pc' = "dov" /\ dov' = compute_dov(formula, variables)
    /\ UNCHANGED <<variables, graph, subformulae, quantitative_labeling, idx, running,
                   queue, given, formula, queue_class, last_call, regulations,
                   arguments, returned>>

NextFormula ==
    \/ EliminateNegation
    \/ GetSubformulae
    \/ ComputeDov

\* the networks {x:2} and {a:1, b:1}
FormulaNetworks == { <<2>>, <<1, 1>> }

\* most Negation nodes stacked on one sub-formula
MaxNegations == 3

\* X under 0..n stacked negations
RECURSIVE Negations(_, _)
Negations(X, n) ==
    IF n = 0 THEN X
    ELSE X \cup { <<"Negation", x>> : x \in Negations(X, n - 1) }

\* the propositions v >= k and v <= k with k from one below 0 to one above m_v
WidePropositions(maxes) ==
    { <<"AP", c[1], c[2], c[3]>> :
        c \in { c \in (1..Len(maxes)) \X {">=", "<="} \X (-1..(MaxActivity + 1)) :
                  c[3] <= maxes[c[1]] + 1 } }

\* unions and intersections of a lower bound on the first variable and an
\* upper bound on the last, their operands possibly negated
FlatCombinations(maxes) ==
    { <<op, l, r>> :
        op \in {"Union", "Intersection"},
        l \in Negations({ p \in WidePropositions(maxes) : p[2] = 1 /\ p[3] = ">=" }, 2),
        r \in Negations({ p \in WidePropositions(maxes) :
                            p[2] = Len(maxes) /\ p[3] = "<=" }, 1) }

\* a union or intersection whose left operand is one itself, the inner
\* node and every proposition possibly negated
NestedCombinations(maxes) ==
    LET lower == Negations({ <<"AP", 1, ">=", 1>> }, 1)
        upper == Negations({ <<"AP", Len(maxes), "<=", 0>> }, 1)
        inner == { <<op, l, r>> : op \in {"Union", "Intersection"}, l \in lower, r \in upper }
    IN { <<op, l, r>> : op \in {"Union", "Intersection"},
                        l \in Negations(inner, 1), r \in lower }

\* the atomic-stratum formulae constructed
GivenAtoms(maxes) ==
    Negations(WidePropositions(maxes), MaxNegations)
    \cup Negations(FlatCombinations(maxes), MaxNegations)
    \cup Negations(NestedCombinations(maxes), 1)

\* the operands given to the binary operators
GivenLeft(maxes) == Negations({ <<"AP", 1, ">=", 1>> }, 2) \cup { <<"Boolean", TRUE>> }

GivenRight(maxes) ==
    Negations({ <<"Intersection", <<"AP", 1, "<=", 1>>, <<"AP", Len(maxes), ">=", 1>>>>,
                <<"AP", Len(maxes), "<=", 0>> }, MaxNegations)

\* Conjunction(EG(AU(EX(a), inter)), EF(d)) of test_get_subformulae_temporal
\* and test_eliminate_negation_temporal, the operands possibly negated
TestFormulas(maxes) ==
    { <<"Conjunction", <<"EG", <<"AU", <<"EX", a>>, b>>>>, <<"EF", d>>>> :
        a \in Negations({ <<"AP", 1, ">=", 1>> }, 1),
        b \in Negations({ <<"Intersection", <<"AP", 1, "<=", 1>>,
                                            <<"AP", Len(maxes), ">=", 1>>>> }, 2),
        d \in Negations({ <<"AP", Len(maxes), "<=", 0>> }, 1) }

\* the formulae constructed
GivenFormulas(maxes) ==
    GivenAtoms(maxes)
    \cup { <<op, a>> : op \in UnaryOps, a \in GivenAtoms(maxes) }
    \cup { <<op, a, b>> : op \in BinaryOps, a \in GivenLeft(maxes), b \in GivenRight(maxes) }
    \cup TestFormulas(maxes)

GivenFormulasOf == [n \in FormulaNetworks |-> GivenFormulas(n)]

InitFormula ==
    /\ variables \in FormulaNetworks
    /\ given \in GivenFormulasOf[variables]
    /\ formula = given
    /\ pc = "constructed"
    /\ graph = EmptyHeap
    /\ subformulae = <<>>
    /\ quantitative_labeling = EmptyHeap
    /\ idx = 1
    /\ running = <<>>
    /\ queue = EmptyHeap
    /\ dov = {}
    /\ queue_class = ""
    /\ last_call = <<>>
    /\ regulations = EmptyHeap
    /\ arguments = <<>>
    /\ returned = <<>>

SpecFormula == InitFormula /\ [][NextFormula]_vars

\* ------------------------------------------------------------------------
\* SpecQueue: a MinPriorityQueue or a MaxPriorityQueue under arbitrary
\* calls of its methods (priority_queue.py)
\* ------------------------------------------------------------------------

QueueItems == 1..MaxItems

QueueKeys == (-MaxKey)..MaxKey

\* queue.decrease_priority(item, key)
DecreasePriority ==
    /\ queue_class = "MinPriorityQueue"
    /\ \E item \in QueueItems : \E key \in QueueKeys :
          /\ queue' = decrease_priority(queue, item, key)
          /\ last_call' = <<"decrease_priority", item, key>>
    /\ UNCHANGED <<variables, graph, subformulae, quantitative_labeling, idx, pc, running,
                   given, formula, dov, queue_class, regulations,
                   arguments, returned>>

\* queue.extract_min(): None on an empty heap, else the popped pair
ExtractMin ==
    /\ queue_class = "MinPriorityQueue"
    /\ IF DOMAIN queue = {}
       THEN last_call' = <<"extract_min", None>> /\ UNCHANGED queue
       ELSE \E min_item \in popitem_choices(queue) :
               /\ queue' = heap_remove(queue, min_item)
               /\ last_call' = <<"extract_min", min_item, queue[min_item]>>
    /\ UNCHANGED <<variables, graph, subformulae, quantitative_labeling, idx, pc, running,
                   given, formula, dov, queue_class, regulations,
                   arguments, returned>>

\* queue.increase_priority(item, key)
IncreasePriority ==
    /\ queue_class = "MaxPriorityQueue"
    /\ \E item \in QueueItems : \E key \in QueueKeys :
          /\ queue' = increase_priority(queue, item, key)
          /\ last_call' = <<"increase_priority", item, key>>
    /\ UNCHANGED <<variables, graph, subformulae, quantitative_labeling, idx, pc, running,
                   given, formula, dov, queue_class, regulations,
                   arguments, returned>>

\* queue.extract_max(): None on an empty heap, else the popped item with
\* the stored key negated back
ExtractMax ==
    /\ queue_class = "MaxPriorityQueue"
    /\ IF DOMAIN queue = {}
       THEN last_call' = <<"extract_max", None>> /\ UNCHANGED queue
       ELSE \E max_item \in popitem_choices(queue) :
               /\ queue' = heap_remove(queue, max_item)
               /\ last_call' = <<"extract_max", max_item, -queue[max_item]>>
    /\ UNCHANGED <<variables, graph, subformulae, quantitative_labeling, idx, pc, running,
                   given, formula, dov, queue_class, regulations,
                   arguments, returned>>

NextQueue ==
    \/ DecreasePriority
    \/ ExtractMin
    \/ IncreasePriority
    \/ ExtractMax

InitQueue ==
    /\ queue_class \in {"MinPriorityQueue", "MaxPriorityQueue"}
    /\ queue = EmptyHeap
    /\ last_call = <<>>
    /\ variables = <<>>
    /\ graph = EmptyHeap
    /\ subformulae = <<>>
    /\ quantitative_labeling = EmptyHeap
    /\ idx = 1
    /\ pc = "queue"
    /\ running = <<>>
    /\ given = <<>>
    /\ formula = <<>>
    /\ dov = {}
    /\ regulations = EmptyHeap
    /\ arguments = <<>>
    /\ returned = <<>>

SpecQueue == InitQueue /\ [][NextQueue]_vars

\* ------------------------------------------------------------------------
\* SpecStg: StateTransitionGraph built from a validated network
\* (multivalued_grn.py).  A regulation is the record of its regulators, each
\* [variable, thresholds], and its contexts, each [intervals, target_value];
\* regulations maps the index of a target variable to its regulation.
\* ------------------------------------------------------------------------

\* bisect_right(thresholds, value) on an ascending list
bisect_right(thresholds, value) ==
    Cardinality({ i \in 1..Len(thresholds) : thresholds[i] <= value })

\* is_context_satisfied
is_context_satisfied(context_intervals, regulators, regulator_values) ==
    \A i \in 1..Len(context_intervals) :
        \/ context_intervals[i] = Wildcard
        \/ bisect_right(regulators[i].thresholds, regulator_values[i]) + 1
              = context_intervals[i]

\* first_matching_step applying the last matching context of the list
first_matching_step_last_context(state, var_idx) ==
    IF var_idx \notin DOMAIN regulations THEN 0
    ELSE LET regulation == regulations[var_idx]
             regulators_values ==
                 [i \in 1..Len(regulation.regulators) |->
                     state[regulation.regulators[i].variable]]
             matching == { c \in 1..Len(regulation.contexts) :
                             is_context_satisfied(regulation.contexts[c].intervals,
                                                  regulation.regulators, regulators_values) }
         IN IF matching = {} THEN 0
            ELSE LET delta == regulation.contexts[SetMax(matching)].target_value
                                - state[var_idx]
                 IN IF delta > 0 THEN 1 ELSE IF delta < 0 THEN -1 ELSE 0

\* the step -1, 0 or +1 the first matching context of the regulation of
\* var_idx asks for in state; 0 when the variable is not regulated or no
\* context matches
first_matching_step(state, var_idx) ==
    IF var_idx \notin DOMAIN regulations THEN 0
    ELSE LET regulation == regulations[var_idx]
             regulators_values ==
                 [i \in 1..Len(regulation.regulators) |->
                     state[regulation.regulators[i].variable]]
             matching == { c \in 1..Len(regulation.contexts) :
                             is_context_satisfied(regulation.contexts[c].intervals,
                                                  regulation.regulators, regulators_values) }
         IN IF matching = {} THEN 0
            ELSE LET delta == regulation.contexts[SetMin(matching)].target_value
                                - state[var_idx]
                 IN IF delta > 0 THEN 1 ELSE IF delta < 0 THEN -1 ELSE 0

\* StateTransitionGraph._compute_state_successors
compute_state_successors(state) ==
    { [state EXCEPT ![var_idx] = @ + first_matching_step(state, var_idx)] :
        var_idx \in { v \in 1..Len(variables) : first_matching_step(state, v) # 0 } }

\* _construct_graph adding the edges to the computed successors only
construct_graph_without_self_loops ==
    [state \in states |-> compute_state_successors(state)]

\* StateTransitionGraph._construct_graph
construct_graph ==
    [state \in states |->
        IF compute_state_successors(state) = {} THEN {state}
        ELSE compute_state_successors(state)]

\* self.graph = self._construct_graph()
ConstructGraph ==
    /\ pc = "parsed"
    /\ graph' = construct_graph
    /\ pc' = "built"
    /\ UNCHANGED <<variables, subformulae, quantitative_labeling, idx, running, queue,
                   given, formula, dov, queue_class, last_call, regulations,
                   arguments, returned>>

NextStg ==
    \/ ConstructGraph

\* the networks {x:1}, {x:2} and {a:1, b:1}
StgNetworks == { <<1>>, <<2>>, <<1, 1>> }

\* the ascending non-empty threshold lists within 1..m
RECURSIVE AscendingLists(_)
AscendingLists(m) ==
    IF m = 0 THEN { <<>> }
    ELSE AscendingLists(m - 1) \cup { Append(q, m) : q \in AscendingLists(m - 1) }

\* the regulator lists _validate_regulators accepts: up to MaxRegulators
\* regulators, here over increasing variables
RegulatorLists(maxes) ==
    { <<>> } \cup
    UNION { { q \in [1..n -> [variable : 1..Len(maxes), thresholds : UNION { AscendingLists(maxes[v]) \ { <<>> } : v \in 1..Len(maxes) }]] :
                /\ \A i \in 1..n : q[i].thresholds \in AscendingLists(maxes[q[i].variable])
                /\ \A i \in 1..(n - 1) : q[i].variable < q[i + 1].variable } :
            n \in 1..MaxRegulators }

\* the contexts _validate_context accepts for a target and its regulators
Contexts(target_max, regulators) ==
    { c \in [intervals : [1..Len(regulators) -> 0..(MaxActivity + 1)], target_value : 0..target_max] :
        \A i \in 1..Len(regulators) :
            c.intervals[i] = Wildcard \/ c.intervals[i] <= Len(regulators[i].thresholds) + 1 }

\* the lists of at most n elements of X
RECURSIVE ListsUpTo(_, _)
ListsUpTo(X, n) ==
    IF n = 0 THEN { <<>> }
    ELSE ListsUpTo(X, n - 1) \cup
         { Append(q, x) : q \in { q \in ListsUpTo(X, n - 1) : Len(q) = n - 1 }, x \in X }

\* the regulations _validate_regulation accepts for a target
Regulations(target, maxes) ==
    UNION { { [regulators |-> r, contexts |-> c] :
                c \in ListsUpTo(Contexts(maxes[target], r), MaxContexts) } :
            r \in RegulatorLists(maxes) }

\* stg.regulations of every validated network over maxes: some variables
\* regulated, the others static inputs
RECURSIVE RegulationMaps(_, _)
RegulationMaps(targets, maxes) ==
    IF targets = {} THEN { EmptyHeap }
    ELSE LET t == SetMax(targets)
             rest == RegulationMaps(targets \ {t}, maxes)
         IN rest \cup
            { [x \in DOMAIN g \cup {t} |-> IF x = t THEN r ELSE g[x]] :
                g \in rest, r \in Regulations(t, maxes) }

RegulationMapsOf == [n \in StgNetworks |-> RegulationMaps(1..Len(n), n)]

InitStg ==
    /\ variables \in StgNetworks
    /\ regulations \in RegulationMapsOf[variables]
    /\ graph = [state \in generate_all_states(variables) |-> {}]
    /\ pc = "parsed"
    /\ subformulae = <<>>
    /\ quantitative_labeling = EmptyHeap
    /\ idx = 1
    /\ running = <<>>
    /\ queue = EmptyHeap
    /\ given = <<>>
    /\ formula = <<>>
    /\ dov = {}
    /\ queue_class = ""
    /\ last_call = <<>>
    /\ arguments = <<>>
    /\ returned = <<>>

SpecStg == InitStg /\ [][NextStg]_vars

\* ------------------------------------------------------------------------
\* SpecDistance: weighted_distance called on a state and a set of states
\* of one state space (weighted_distance.py)
\* ------------------------------------------------------------------------

\* the networks explored: those of Networks, {a:2, b:1} with its unequal
\* weights, and {a:2, b:2}
DistanceNetworks == Networks \cup { <<2, 1>>, <<2, 2>> }

\* returned = weighted_distance(state, border, max_activities)
WeightedDistance ==
    /\ pc = "distance"
    /\ returned' = weighted_distance(arguments[1], arguments[2], variables)
    /\ pc' = "returned"
    /\ UNCHANGED <<variables, graph, subformulae, quantitative_labeling, idx, running,
                   queue, given, formula, dov, queue_class, last_call, regulations,
                   arguments>>

NextDistance ==
    \/ WeightedDistance

InitDistance ==
    /\ variables \in DistanceNetworks
    /\ \E state \in generate_all_states(variables) :
          \E border \in SUBSET generate_all_states(variables) :
              arguments = <<state, border>>
    /\ returned = <<>>
    /\ pc = "distance"
    /\ graph = EmptyHeap
    /\ subformulae = <<>>
    /\ quantitative_labeling = EmptyHeap
    /\ idx = 1
    /\ running = <<>>
    /\ queue = EmptyHeap
    /\ given = <<>>
    /\ formula = <<>>
    /\ dov = {}
    /\ queue_class = ""
    /\ last_call = <<>>
    /\ regulations = EmptyHeap

SpecDistance == InitDistance /\ [][NextDistance]_vars

\* ------------------------------------------------------------------------
\* Reference semantics used by the properties
\* ------------------------------------------------------------------------

\* the formula handed to model_check
Top == subformulae[Len(subformulae)]

Label(s, k) == quantitative_labeling[s][k]

\* the column of a key, as a labeling of the states
Column(k) == [s \in states |-> quantitative_labeling[s][k]]

\* the states reachable from the states of S, those of S included
RECURSIVE ReachFrom(_)
ReachFrom(S) ==
    LET N == S \cup UNION { graph[t] : t \in S }
    IN IF N = S THEN S ELSE ReachFrom(N)

Bottom == [s \in states |-> -LabelScale]

Full == [s \in states |-> LabelScale]

\* greatest X with X(s) = min(phi(s), max over successors t of X(t)),
\* reached by iterating from the greatest labeling
RECURSIVE GfpEG(_, _)
GfpEG(X, phi) ==
    LET N == [s \in states |-> min(phi[s], SetMax({ X[t] : t \in graph[s] }))]
    IN IF N = X THEN X ELSE GfpEG(N, phi)

\* least X with X(s) = max(phi(s), min over successors t of X(t))
RECURSIVE LfpAF(_, _)
LfpAF(X, phi) ==
    LET N == [s \in states |-> max(phi[s], SetMin({ X[t] : t \in graph[s] }))]
    IN IF N = X THEN X ELSE LfpAF(N, phi)

\* least X with X(s) = max(psi(s), min(phi(s), min over successors of X))
RECURSIVE LfpAU(_, _, _)
LfpAU(X, phi, psi) ==
    LET N == [s \in states |->
                max(psi[s], min(phi[s], SetMin({ X[t] : t \in graph[s] })))]
    IN IF N = X THEN X ELSE LfpAU(N, phi, psi)

\* least X with X(s) = max(psi(s), min(phi(s), max over successors of X))
RECURSIVE LfpEU(_, _, _)
LfpEU(X, phi, psi) ==
    LET N == [s \in states |->
                max(psi[s], min(phi[s], SetMax({ X[t] : t \in graph[s] })))]
    IN IF N = X THEN X ELSE LfpEU(N, phi, psi)

\* Boolean CTL on the graph
PreA(X) == { s \in states : graph[s] \subseteq X }

PreE(X) == { s \in states : graph[s] \cap X # {} }

RECURSIVE GfpSet(_, _, _, _)
GfpSet(X, P, Q, universal) ==
    LET N == Q \cup (P \cap (IF universal THEN PreA(X) ELSE PreE(X)))
    IN IF N = X THEN X ELSE GfpSet(N, P, Q, universal)

RECURSIVE LfpSet(_, _, _, _)
LfpSet(X, P, Q, universal) ==
    LET N == Q \cup (P \cap (IF universal THEN PreA(X) ELSE PreE(X)))
    IN IF N = X THEN X ELSE LfpSet(N, P, Q, universal)

\* the states that satisfy f under Boolean CTL, an atomic formula being
\* true exactly on its domain of validity
RECURSIVE SatSet(_)
SatSet(f) ==
    CASE IsAtomic(f) -> compute_dov(f, variables) \cap states
      [] f[1] = "Boolean" -> IF f[2] THEN states ELSE {}
      [] f[1] = "Conjunction" -> SatSet(f[2]) \cap SatSet(f[3])
      [] f[1] = "Disjunction" -> SatSet(f[2]) \cup SatSet(f[3])
      [] f[1] = "AX" -> PreA(SatSet(f[2]))
      [] f[1] = "EX" -> PreE(SatSet(f[2]))
      [] f[1] = "AG" -> GfpSet(states, SatSet(f[2]), {}, TRUE)
      [] f[1] = "EG" -> GfpSet(states, SatSet(f[2]), {}, FALSE)
      [] f[1] = "AF" -> LfpSet({}, states, SatSet(f[2]), TRUE)
      [] f[1] = "EF" -> LfpSet({}, states, SatSet(f[2]), FALSE)
      [] f[1] = "AU" -> LfpSet({}, SatSet(f[2]), SatSet(f[3]), TRUE)
      [] f[1] = "EU" -> LfpSet({}, SatSet(f[2]), SatSet(f[3]), FALSE)
      [] f[1] = "AW" -> GfpSet(states, SatSet(f[2]), SatSet(f[3]), TRUE)
      [] f[1] = "EW" -> GfpSet(states, SatSet(f[2]), SatSet(f[3]), FALSE)

\* ------------------------------------------------------------------------
\* Properties
\* ------------------------------------------------------------------------

\* C1: when model_check has evaluated every sub-formula, every label of
\* the table (every state, every key) is a number within [-1, +1]
C1_LabelsInRange ==
    Done => \A s \in states : \A k \in DOMAIN quantitative_labeling[s] :
                /\ Label(s, k) # None
                /\ -LabelScale <= Label(s, k)
                /\ Label(s, k) <= LabelScale

\* C1 witness: model_check is done for a temporal formula over an atomic
\* operand whose labels reach both +1 and a negative value
C1_Witness ==
    /\ Done
    /\ Top[1] \in LoopOps
    /\ IsAtomic(Top[2])
    /\ \E s \in states : Label(s, Top[2]) = LabelScale
    /\ \E s \in states : Label(s, Top[2]) < 0 /\ Label(s, Top[2]) > -LabelScale

\* C2: after model_check, a positive label means the state satisfies the
\* sub-formula under Boolean CTL and a negative label means it violates it
C2_SignAgreesWithCTL ==
    Done => \A i \in 1..Len(subformulae) : \A s \in states :
                /\ Label(s, subformulae[i]) > 0 => s \in SatSet(subformulae[i])
                /\ Label(s, subformulae[i]) < 0 => s \notin SatSet(subformulae[i])

\* C3: when AG.evaluate has terminated, the AG label of a state is the
\* minimum of the operand's labels over the states reachable from it
C3_AGIsMinOverReachable ==
    (Done /\ Top[1] = "AG") =>
        \A s \in states :
            Label(s, Top) = SetMin({ Label(t, Top[2]) : t \in ReachFrom({s}) })

\* C4: when EF.evaluate has terminated, the EF label of a state is the
\* maximum of the operand's labels over the states reachable from it
C4_EFIsMaxOverReachable ==
    (Done /\ Top[1] = "EF") =>
        \A s \in states :
            Label(s, Top) = SetMax({ Label(t, Top[2]) : t \in ReachFrom({s}) })

\* C5: when EG.evaluate has terminated, the EG column is the greatest
\* labeling X with X(s) = min(L[s][phi], max over successors of X)
C5_EGIsGreatestFixpoint ==
    (Done /\ Top[1] = "EG") => Column(Top) = GfpEG(Full, Column(Top[2]))

\* C6: when AF.evaluate has terminated, the AF column is the least
\* labeling X with X(s) = max(L[s][phi], min over successors of X)
C6_AFIsLeastFixpoint ==
    (Done /\ Top[1] = "AF") => Column(Top) = LfpAF(Bottom, Column(Top[2]))

\* C7: when AU.evaluate has terminated, the AU column is the least
\* labeling X with X(s) = max(L[s][psi], min(L[s][phi], min over
\* successors of X))
C7_AUIsLeastFixpoint ==
    (Done /\ Top[1] = "AU") =>
        Column(Top) = LfpAU(Bottom, Column(Top[2]), Column(Top[3]))

\* C7 witness: AU.evaluate has terminated and raised some state above its
\* initial value L[s][psi] and above the psi labels of all its successors,
\* to a value that reached it over more than one transition
C7_Witness ==
    /\ Done
    /\ Top[1] = "AU"
    /\ \E s \in states :
          /\ Label(s, Top) > Label(s, Top[3])
          /\ \A t \in graph[s] : Label(t, Top[3]) < Label(s, Top)

\* C8: when EU.evaluate has terminated, the EU column is the least
\* labeling X with X(s) = max(L[s][psi], min(L[s][phi], max over
\* successors of X))
C8_EUIsLeastFixpoint ==
    (Done /\ Top[1] = "EU") =>
        Column(Top) = LfpEU(Bottom, Column(Top[2]), Column(Top[3]))

\* C8 witness: EU.evaluate has terminated and raised some state to +1
\* although its own psi label and those of all its successors are lower,
\* the value having reached it over more than one transition
C8_Witness ==
    /\ Done
    /\ Top[1] = "EU"
    /\ \E s \in states :
          /\ Label(s, Top) = LabelScale
          /\ Label(s, Top[3]) < LabelScale
          /\ \A t \in graph[s] : Label(t, Top[3]) < LabelScale

\* the formula A (x >= 0) W false of the weak-until scenario
WeakUntilExample == <<"AW", <<"AP", 1, ">=", 0>>, <<"Boolean", FALSE>>>>

\* C9: once model_check has stopped on A (x >= 0) W false, every state is
\* labelled +1, the maximum of its AG label +1 and its AU label -1
C9_WeakUntilExample ==
    (Top = WeakUntilExample /\ (Done \/ pc = "raised")) =>
        \A s \in states : Label(s, Top) = LabelScale

\* C10: once model_check has evaluated an atomic-stratum formula, a state
\* has a non-negative label exactly when it lies in the domain of validity
C10_AtomicSignIsMembership ==
    (IsAtomic(Top) /\ Done) =>
        \A s \in states :
            Label(s, Top) >= 0 <=> s \in compute_dov(Top, variables)

\* the label the documented atomic semantics gives state s: inside the
\* domain the distance to the outside frontier over the greatest such
\* distance, outside it minus the distance to the inside frontier over the
\* greatest such distance
documented_label(f, maxes, s) ==
    LET D == compute_dov(f, maxes)
        B_in == get_border_states(D, maxes)[1]
        B_out == get_border_states(D, maxes)[2]
        max_dov_depth == find_extreme_depth(D, B_out, maxes)
        max_codov_depth == find_extreme_depth(compute_dov_complement(D, maxes), B_in, maxes)
    IN IF s \in D
       THEN Ratio(weighted_distance(s, B_out, maxes), max_dov_depth)
       ELSE -Ratio(weighted_distance(s, B_in, maxes), max_codov_depth)

\* C11: once model_check has evaluated an atomic-stratum formula, a state
\* of its domain is labelled wd(s, B_out) / max_dov_depth and a state outside
\* it -wd(s, B_in) / max_codov_depth
C11_AtomicLabelFormula ==
    (IsAtomic(Top) /\ Done) =>
        \A s \in states : Label(s, Top) = documented_label(Top, variables, s)

\* C12: once model_check has stopped on an atomic-stratum formula whose
\* domain is the whole state space every state is labelled +1, and on one
\* whose domain is empty every state is labelled -1
C12_DegenerateDomains ==
    (IsAtomic(Top) /\ (Done \/ pc = "raised")) =>
        /\ compute_dov(Top, variables) = states =>
              \A s \in states : Label(s, Top) = LabelScale
        /\ compute_dov(Top, variables) = {} =>
              \A s \in states : Label(s, Top) = -LabelScale

\* no Negation node anywhere in the tree
RECURSIVE NegationFree(_)
NegationFree(f) ==
    CASE f[1] = "Negation" -> FALSE
      [] f[1] \in {"AP", "Boolean"} -> TRUE
      [] f[1] \in UnaryOps -> NegationFree(f[2])
      [] OTHER -> NegationFree(f[2]) /\ NegationFree(f[3])

\* the states of the state space at which an atomic-stratum formula is
\* true, a negation being true where its operand is not
RECURSIVE Satisfying(_, _)
Satisfying(f, maxes) ==
    CASE f[1] = "AP" ->
            { s \in generate_all_states(maxes) :
                IF f[3] = ">=" THEN s[f[2]] >= f[4] ELSE s[f[2]] <= f[4] }
      [] f[1] = "Negation" -> generate_all_states(maxes) \ Satisfying(f[2], maxes)
      [] f[1] = "Union" -> Satisfying(f[2], maxes) \cup Satisfying(f[3], maxes)
      [] f[1] = "Intersection" -> Satisfying(f[2], maxes) \cap Satisfying(f[3], maxes)

\* the negation-free form of f (negated = FALSE) or of not-f (negated =
\* TRUE): thresholds shifted by one, De Morgan, double negation cancelled
RECURSIVE NegationFreeForm(_, _)
NegationFreeForm(f, negated) ==
    CASE f[1] = "AP" -> IF negated THEN negate(f) ELSE f
      [] f[1] = "Boolean" -> f
      [] f[1] = "Negation" -> NegationFreeForm(f[2], ~negated)
      [] f[1] \in {"Union", "Intersection"} ->
            <<IF negated THEN (IF f[1] = "Union" THEN "Intersection" ELSE "Union") ELSE f[1],
              NegationFreeForm(f[2], negated), NegationFreeForm(f[3], negated)>>
      [] f[1] \in UnaryOps -> <<f[1], NegationFreeForm(f[2], FALSE)>>
      [] OTHER -> <<f[1], NegationFreeForm(f[2], FALSE), NegationFreeForm(f[3], FALSE)>>

\* a Negation whose operand is a Negation occurs in the tree
RECURSIVE HasDoubleNegation(_)
HasDoubleNegation(f) ==
    CASE f[1] = "Negation" -> f[2][1] = "Negation" \/ HasDoubleNegation(f[2])
      [] f[1] \in {"AP", "Boolean"} -> FALSE
      [] f[1] \in UnaryOps -> HasDoubleNegation(f[2])
      [] OTHER -> HasDoubleNegation(f[2]) \/ HasDoubleNegation(f[3])

\* the number of entries of the sub-formula list: one for each operator
\* node, one for each atomic-stratum tree and Boolean
RECURSIVE EntryCount(_)
EntryCount(f) ==
    IF f[1] \in UnaryOps THEN 1 + EntryCount(f[2])
    ELSE IF f[1] \in BinaryOps THEN 1 + EntryCount(f[2]) + EntryCount(f[3])
    ELSE 1

\* C13: the set compute_dov returns for a negation-free atomic-stratum
\* formula, whatever its thresholds, lies within the state space and holds
\* exactly the states at which the formula is true
C13_DovWithinStateSpace ==
    (pc = "dov" /\ NegationFree(given)) =>
        /\ dov \subseteq generate_all_states(variables)
        /\ dov = Satisfying(formula, variables)

\* C14: eliminating the negation from not-phi, phi atomic-stratum, at the
\* root or as the operand of a unary operator, yields a negation-free
\* formula whose domain of validity is the complement of that of phi
C14_NegationDuality ==
    /\ (pc = "eliminated" /\ given[1] = "Negation") =>
          /\ NegationFree(formula)
          /\ compute_dov(formula, variables) =
                generate_all_states(variables) \ Satisfying(given[2], variables)
    /\ (pc = "eliminated" /\ given[1] \in UnaryOps /\ given[2][1] = "Negation") =>
          /\ NegationFree(formula)
          /\ compute_dov(formula[2], variables) =
                generate_all_states(variables) \ Satisfying(given[2][2], variables)

\* C15: after eliminate_negation no Negation node is reachable from the
\* root of the formula
C15_NoNegationAfterElimination ==
    pc = "eliminated" => NegationFree(formula)

\* C16: eliminate_negation applied to a formula in which a negation is
\* itself negated, at the root or below an operator, yields the
\* negation-free form in which each pair of stacked negations cancels
C16_DoubleNegationCancels ==
    (pc = "eliminated" /\ HasDoubleNegation(given)) =>
        formula = NegationFreeForm(given, FALSE)

\* C17: eliminate_negation applied to its own result returns that result,
\* and applied to a negation-free formula returns the formula
C17_EliminationIdempotent ==
    /\ pc = "eliminated twice" => formula = eliminate_negation(given)
    /\ (pc = "eliminated" /\ NegationFree(given)) => formula = given

\* C17 witness: eliminate_negation has been applied twice to a formula
\* whose negated union it rewrote by De Morgan
C17_Witness ==
    /\ pc = "eliminated twice"
    /\ given[1] \in UnaryOps
    /\ given[2][1] = "Negation"
    /\ given[2][2][1] = "Union"
    /\ formula[2][1] = "Intersection"
    /\ NegationFree(formula)

\* C18: the list get_subformulae returns ends with the formula, holds one
\* entry for each operator node and one for each atomic-stratum tree, and
\* has the operand of a unary entry right before it and the left and right
\* operands of a binary entry, with all their entries, right before it
C18_SubformulaePostOrder ==
    pc = "listed" =>
        /\ Len(subformulae) = EntryCount(formula)
        /\ subformulae[Len(subformulae)] = formula
        /\ \A i \in 1..Len(subformulae) :
              LET g == subformulae[i]
              IN /\ g[1] \in UnaryOps => i > 1 /\ subformulae[i - 1] = g[2]
                 /\ g[1] \in BinaryOps =>
                       /\ i - 1 - EntryCount(g[3]) >= 1
                       /\ subformulae[i - 1] = g[3]
                       /\ subformulae[i - 1 - EntryCount(g[3])] = g[2]

\* C18 witness: the eight entries of Conjunction(EG(AU(EX(a), inter)),
\* EF(d)) have been listed, the intersection as one entry
C18_Witness ==
    /\ pc = "listed"
    /\ Len(subformulae) = 8
    /\ subformulae[1][1] = "AP"
    /\ subformulae[2][1] = "EX"
    /\ subformulae[3][1] \in {"Union", "Intersection"}
    /\ subformulae[4][1] = "AU"
    /\ subformulae[8][1] = "Conjunction"

\* the key under which the queue holds item x, as its caller gave it
KeyOf(heap, x) == IF queue_class = "MinPriorityQueue" THEN heap[x] ELSE -heap[x]

\* key a comes out of the queue no later than key b
NoLater(a, b) == IF queue_class = "MinPriorityQueue" THEN a <= b ELSE a >= b

\* what one call must do to a keyed priority map
QueueContractStep ==
    /\ last_call'[1] \in {"decrease_priority", "increase_priority"} =>
          LET item == last_call'[2]
              key == last_call'[3]
          IN /\ DOMAIN queue' = DOMAIN queue \cup {item}
             /\ \A x \in DOMAIN queue \ {item} : queue'[x] = queue[x]
             /\ KeyOf(queue', item) =
                   IF item \in DOMAIN queue /\ NoLater(KeyOf(queue, item), key)
                   THEN KeyOf(queue, item) ELSE key
    /\ last_call'[1] \in {"extract_min", "extract_max"} =>
          IF DOMAIN queue = {}
          THEN last_call'[2] = None /\ Len(last_call') = 2 /\ queue' = queue
          ELSE /\ Len(last_call') = 3
               /\ last_call'[2] \in DOMAIN queue
               /\ last_call'[3] = KeyOf(queue, last_call'[2])
               /\ \A x \in DOMAIN queue : NoLater(last_call'[3], KeyOf(queue, x))
               /\ queue' = [x \in DOMAIN queue \ {last_call'[2]} |-> queue[x]]
               /\ (Len(last_call) = 3 /\ last_call[1] = last_call'[1]) =>
                     NoLater(last_call[3], last_call'[3])

\* C19: every call on a min-queue or a max-queue acts as on a keyed
\* priority map: a push inserts an absent item, improves the key of a
\* present item only when the new key is strictly better and otherwise
\* changes nothing; an extraction returns None on an empty queue and else
\* removes an item of best key, with the key as given, successive
\* extractions returning keys in order
C19_QueueContract == [][QueueContractStep]_vars

\* C19 witness: a min-queue returned an item while items of larger keys
\* stayed queued
C19_Witness ==
    /\ queue_class = "MinPriorityQueue"
    /\ Len(last_call) = 3
    /\ last_call[1] = "extract_min"
    /\ Cardinality(DOMAIN queue) >= 2
    /\ \A x \in DOMAIN queue : queue[x] > last_call[3]

\* the regulation of variable v has a context matching state s, and the
\* first such context has a target value other than s[v]
DemandsChange(s, v) ==
    /\ v \in DOMAIN regulations
    /\ \E c \in 1..Len(regulations[v].contexts) :
          LET matches(k) ==
                  is_context_satisfied(regulations[v].contexts[k].intervals,
                      regulations[v].regulators,
                      [i \in 1..Len(regulations[v].regulators) |->
                          s[regulations[v].regulators[i].variable]])
          IN /\ matches(c)
             /\ \A k \in 1..(c - 1) : ~matches(k)
             /\ regulations[v].contexts[c].target_value # s[v]

\* C20: in the graph built from a validated network every state has a
\* successor; a state in which no regulated variable's first matching
\* context demands a change has itself as its only successor, and a state
\* in which one does has no self-loop
C20_StgTotality ==
    pc = "built" =>
        \A s \in states :
            /\ graph[s] # {}
            /\ (\A v \in 1..Len(variables) : ~DemandsChange(s, v)) => graph[s] = {s}
            /\ (\E v \in 1..Len(variables) : DemandsChange(s, v)) => s \notin graph[s]

\* C20 witness: a built graph in which one state has two successors and
\* another, whose variables are all regulated, only its self-loop
C20_Witness ==
    /\ pc = "built"
    /\ DOMAIN regulations = 1..Len(variables)
    /\ \E s \in states : Cardinality(graph[s]) = 2
    /\ \E s \in states : graph[s] = {s}

\* interval index k of a regulator with the given thresholds matches the
\* value x: exactly k - 1 thresholds are at most x; "*" matches any value
IntervalMatches(k, thresholds, x) ==
    \/ k = Wildcard
    \/ \E below \in SUBSET (1..Len(thresholds)) :
          /\ Cardinality(below) = k - 1
          /\ \A i \in 1..Len(thresholds) : i \in below <=> thresholds[i] <= x

\* context c of the regulation of variable v matches state s
ContextMatches(v, c, s) ==
    \A i \in 1..Len(regulations[v].regulators) :
        IntervalMatches(regulations[v].contexts[c].intervals[i],
                        regulations[v].regulators[i].thresholds,
                        s[regulations[v].regulators[i].variable])

\* the contexts applied to variable v in state s: the first of the list
\* that matches, if v is regulated and one matches
AppliedContexts(v, s) ==
    IF v \notin DOMAIN regulations THEN {}
    ELSE { c \in 1..Len(regulations[v].contexts) :
             ContextMatches(v, c, s) /\ \A k \in 1..(c - 1) : ~ContextMatches(v, k, s) }

\* the successors of s that differ from it in coordinate v
SuccessorsAlong(s, v) == { t \in graph[s] : t[v] # s[v] }

\* C21: in the built graph the successors of a state other than itself
\* lie in the state space and differ from it in one coordinate; along a
\* variable whose first matching context has a target other than the
\* variable's value there is the one successor a unit step toward that
\* target, and along a variable that is unregulated, matches no context or
\* is at the target of its first matching context there is none
C21_SuccessorRule ==
    pc = "built" =>
        \A s \in states :
            /\ graph[s] \subseteq states
            /\ \A t \in graph[s] \ {s} :
                  Cardinality({ i \in 1..Len(variables) : t[i] # s[i] }) = 1
            /\ \A v \in 1..Len(variables) :
                  LET applied == AppliedContexts(v, s)
                      targets == { regulations[v].contexts[c].target_value : c \in applied }
                  IN /\ Cardinality(applied) <= 1
                     /\ SuccessorsAlong(s, v) =
                           { [s EXCEPT ![v] = IF x > s[v] THEN s[v] + 1 ELSE s[v] - 1] :
                               x \in targets \ {s[v]} }

\* C21 witness: a built graph with a state matched by two contexts of one
\* regulation whose targets lie on either side of the variable's value, the
\* successor being the step toward the first context's target
C21_Witness ==
    /\ pc = "built"
    /\ \E v \in DOMAIN regulations : \E s \in states :
          /\ Len(regulations[v].contexts) = 2
          /\ Len(regulations[v].regulators) = 1
          /\ ContextMatches(v, 1, s) /\ ContextMatches(v, 2, s)
          /\ regulations[v].contexts[1].intervals[1] # Wildcard
          /\ regulations[v].contexts[1].target_value > s[v]
          /\ regulations[v].contexts[2].target_value < s[v]
          /\ graph[s] = { [s EXCEPT ![v] = s[v] + 1] }

\* C22: every run of a fixed-point operator on a total graph, whatever its
\* cycles, self-loops and operand labels, empties its queue and returns
C22_LoopsTerminate == <>Done

\* C22 witness: an operator has returned on a graph with a self-loop and a
\* cycle through two states, having changed the label of a state on the
\* cycle
C22_Witness ==
    /\ Done
    /\ Top[1] \in LoopOps
    /\ \E s \in states : s \in graph[s]
    /\ \E s \in states : \E t \in states \ {s} :
          /\ t \in graph[s] /\ s \in graph[t]
          /\ Label(s, Top) # Label(s, Top[Len(Top)])

\* |a - b|
AbsDiff(a, b) == IF a >= b THEN a - b ELSE b - a

\* the sum over the coordinates i of |s_i - t_i| / m_i, times WeightScale
RECURSIVE WeightedHamming(_, _, _, _)
WeightedHamming(s, t, maxes, i) ==
    IF i = 0 THEN 0
    ELSE WeightedHamming(s, t, maxes, i - 1)
         + AbsDiff(s[i], t[i]) * (WeightScale(maxes) \div maxes[i])

\* C23: weighted_distance(s, T, maxima) is the least weighted Hamming
\* distance from s to a state of T: 0 when s is in T, infinity when T is
\* empty
C23_WeightedDistanceIsShortest ==
    pc = "returned" =>
        LET s == arguments[1]
            T == arguments[2]
        IN /\ T = {} => returned = inf
           /\ s \in T => returned = 0
           /\ T # {} =>
                 returned = SetMin({ WeightedHamming(s, t, variables, Len(variables)) : t \in T })

\* C23 witness: the distance returned in a network of unequal weights was
\* that of a target two steps away, one along each coordinate, a nearer
\* one not existing
C23_Witness ==
    /\ pc = "returned"
    /\ Len(variables) = 2
    /\ variables[1] # variables[2]
    /\ arguments[2] # {}
    /\ returned = (WeightScale(variables) \div variables[1])
                  + (WeightScale(variables) \div variables[2])
    /\ \E t \in arguments[2] : t[1] # arguments[1][1] /\ t[2] # arguments[1][2]

\* the graph (0) -> (1), (1) -> (2), (2) -> (2) of the network {x:2}
ChainGraph ==
    [s \in generate_all_states(<<2>>) |-> IF s[1] < 2 THEN { [s EXCEPT ![1] = @ + 1] } ELSE {s}]

\* the formula x >= 2 && x <= 0
ConjunctionExample == <<"Conjunction", <<"AP", 1, ">=", 2>>, <<"AP", 1, "<=", 0>>>>

\* C24: once model_check has stopped on x >= 2 && x <= 0 over the chain
\* graph of {x:2}, each of the three states is labelled -1
C24_ConjunctionExample ==
    (variables = <<2>> /\ graph = ChainGraph /\ Top = ConjunctionExample
        /\ (Done \/ pc = "raised")) =>
        \A s \in states : Label(s, Top) = -LabelScale

\* C25: once a conjunction or a disjunction has been evaluated, its label
\* in every state is the minimum, respectively the maximum, of the labels
\* of its two operands in that same state
C25_ConjunctionDisjunctionPointwise ==
    pc = "call" =>
        \A i \in 1..(idx - 1) : \A s \in states :
            LET g == subformulae[i]
            IN /\ g[1] = "Conjunction" =>
                     /\ Label(s, g) \in { Label(s, g[2]), Label(s, g[3]) }
                     /\ Label(s, g) <= Label(s, g[2])
                     /\ Label(s, g) <= Label(s, g[3])
               /\ g[1] = "Disjunction" =>
                     /\ Label(s, g) \in { Label(s, g[2]), Label(s, g[3]) }
                     /\ Label(s, g) >= Label(s, g[2])
                     /\ Label(s, g) >= Label(s, g[3])

\* C25 witness: a conjunction has been evaluated that takes the left
\* operand's label in one state and the different right operand's label in
\* another
C25_Witness ==
    /\ Done
    /\ Top[1] = "Conjunction"
    /\ \E s \in states : Label(s, Top[2]) < Label(s, Top[3]) /\ Label(s, Top) = Label(s, Top[2])
    /\ \E s \in states : Label(s, Top[3]) < Label(s, Top[2]) /\ Label(s, Top) = Label(s, Top[3])

\* the while loop of an operator run to its end, the queue returning at
\* each extraction one fixed item among those of best key
RECURSIVE canonical_loop(_, _, _)
canonical_loop(L, heap, f) ==
    IF DOMAIN heap = {} THEN L
    ELSE LET state == CHOOSE x \in popitem_choices(heap) : TRUE
             r == loop_step(L, heap, state, f)
         IN canonical_loop(r.L, r.heap, f)

\* the table evaluate of a fixed-point operator leaves under that queue
canonical_evaluate(L, f) == canonical_loop(loop_init(L, f).L, loop_init(L, f).heap, f)

\* pushing (a, k) and then (b, l) leaves the heap that pushing (b, l) and
\* then (a, k) leaves
PushesCommute(heap, a, k, b, l) ==
    /\ decrease_priority(decrease_priority(heap, a, k), b, l)
          = decrease_priority(decrease_priority(heap, b, l), a, k)
    /\ increase_priority(increase_priority(heap, a, k), b, l)
          = increase_priority(increase_priority(heap, b, l), a, k)

\* C26: whatever items the queue returned among those of equal key, the
\* table an operator leaves is the one it leaves under a fixed choice; the
\* pushes of one loop over states or predecessors leave the same queue in
\* every order; a second model_check leaves the table of the first
C26_Deterministic ==
    /\ Done => quantitative_labeling = canonical_evaluate(quantitative_labeling, Top)
    /\ (Done /\ returned # <<>>) => quantitative_labeling = returned
    /\ pc = "loop" =>
          \A a \in states : \A b \in states :
              \A k \in ExtremeValues : \A l \in ExtremeValues :
                  PushesCommute(queue, a, k, b, l)

\* C26 witness: the second model_check has returned for an AU whose label
\* rose in a state and in one of its successors, the two having entered
\* the queue with equal keys
C26_Witness ==
    /\ Done
    /\ returned # <<>>
    /\ Top[1] = "AU"
    /\ \E a \in states : \E b \in graph[a] \ {a} :
          /\ Label(a, Top) > Label(a, Top[3])
          /\ Label(b, Top) > Label(b, Top[3])
          /\ SetMax({ Label(t, Top[3]) : t \in graph[a] })
                = SetMax({ Label(t, Top[3]) : t \in graph[b] })

\* the direct sub-formulae whose labels evaluate of f reads
Children(f) ==
    IF f[1] \in UnaryOps THEN { f[2] }
    ELSE IF f[1] \in BinaryOps THEN { f[2], f[3] }
    ELSE {}

\* the table starts unset; the sub-formulae evaluated so far are set in
\* every state, the operands of the one being evaluated among them; at the
\* end no cell is unset
DependencyState ==
    /\ (pc = "call" /\ idx = 1) =>
          \A s \in states :
              /\ DOMAIN quantitative_labeling[s] = remove_duplicate_labels(subformulae)
              /\ \A k \in DOMAIN quantitative_labeling[s] : Label(s, k) = None
    /\ \A i \in 1..(idx - 1) : \A s \in states : Label(s, subformulae[i]) # None
    /\ (pc \in {"call", "loop"} /\ idx <= Len(subformulae)) =>
          \A o \in Children(cur) :
              /\ \E i \in 1..(idx - 1) : subformulae[i] = o
              /\ \A s \in states : Label(s, o) # None
    /\ Done => \A s \in states : \A k \in DOMAIN quantitative_labeling[s] : Label(s, k) # None

\* no step changes a label that a sub-formula evaluated or being evaluated
\* reads
DependencyStep ==
    \A j \in 1..Len(subformulae) :
        j <= idx => \A o \in Children(subformulae[j]) : \A s \in states :
                        quantitative_labeling'[s][o] = quantitative_labeling[s][o]

OwnColumnStep ==
    idx <= Len(subformulae) =>
        \A s \in states : \A k \in DOMAIN quantitative_labeling'[s] :
            k # subformulae[idx] =>
                /\ k \in DOMAIN quantitative_labeling[s]
                /\ quantitative_labeling'[s][k] = quantitative_labeling[s][k]

\* C28: evaluating a sub-formula, whatever its operator, writes its own
\* column of the label table only: the columns of its operands and of
\* every other key stay as they were
C28_ColumnOwnership == [][OwnColumnStep]_vars

\* the operators whose labels go down from the operand's, and the column a
\* loop operator starts from
Decreasing(f) == f[1] \in {"AG", "EG"}

InitialColumn(f) == IF f[1] \in {"AU", "EU"} THEN f[3] ELSE f[2]

\* while or after the loop of the running operator, its label in a state
\* is on the right side of the value it started with
DisciplineState ==
    (pc = "loop" \/ Done) =>
        \A s \in states :
            IF Decreasing(Top) THEN Label(s, Top) <= Label(s, InitialColumn(Top))
            ELSE Label(s, Top) >= Label(s, InitialColumn(Top))

\* an iteration of the loop moves no label the wrong way
DisciplineStep ==
    pc = "loop" =>
        \A s \in states :
            IF Decreasing(Top) THEN quantitative_labeling'[s][Top] <= Label(s, Top)
            ELSE quantitative_labeling'[s][Top] >= Label(s, Top)

\* C29: at every step of an AG or EG loop the label of a state does not
\* increase and is at most the operand's label in that state; at every
\* step of an AF, EF, AU or EU loop it does not decrease and is at least
\* the label it was initialised with, the operand's or, for an until, the
\* right operand's
C29_MonotoneDiscipline == []DisciplineState /\ [][DisciplineStep]_vars

\* C29 witness: an EG loop has lowered the label of a state and an
\* iteration is still to run
C29_Witness ==
    /\ pc = "loop"
    /\ Top[1] = "EG"
    /\ \E s \in states : Label(s, Top) < Label(s, Top[2])

\* C30: of the six operators evaluated on one graph and one pair of
\* operand labelings, those already evaluated have in every state their
\* final labels ordered AG phi <= EG phi <= phi <= AF phi <= EF phi and
\* psi <= A phi U psi <= E phi U psi
C30_OperatorOrdering ==
    subformulae = SixOperators =>
        \A s \in states :
            /\ idx > 2 => /\ Label(s, <<"AG", PHI>>) <= Label(s, <<"EG", PHI>>)
                          /\ Label(s, <<"EG", PHI>>) <= Label(s, PHI)
            /\ idx > 3 => Label(s, PHI) <= Label(s, <<"AF", PHI>>)
            /\ idx > 4 => Label(s, <<"AF", PHI>>) <= Label(s, <<"EF", PHI>>)
            /\ idx > 5 => Label(s, PSI) <= Label(s, <<"AU", PHI, PSI>>)
            /\ idx > 6 => Label(s, <<"AU", PHI, PSI>>) <= Label(s, <<"EU", PHI, PSI>>)

\* C30 witness: the six operators have been evaluated, the labels being
\* strictly ordered AG < EG < phi in one state, phi < AF < EF in another
\* and psi <= AU < EU in a third
C30_Witness ==
    /\ Done
    /\ subformulae = SixOperators
    /\ \E s \in states :
          /\ Label(s, <<"AG", PHI>>) < Label(s, <<"EG", PHI>>)
          /\ Label(s, <<"EG", PHI>>) < Label(s, PHI)
    /\ \E s \in states :
          /\ Label(s, PHI) < Label(s, <<"AF", PHI>>)
          /\ Label(s, <<"AF", PHI>>) < Label(s, <<"EF", PHI>>)
    /\ \E s \in states : Label(s, <<"AU", PHI, PSI>>) < Label(s, <<"EU", PHI, PSI>>)

====
